---- MODULE Spec2Model ----
(***************************************************************************)
(* Model of the airline review dashboards (src/airline_dashboard.py, the   *)
(* "basic" variant, and src/advanced_airline_dashboard.py, the "advanced"  *)
(* variant): the load-and-derive stage, the field derivers parse_route and *)
(* categorize_satisfaction, the interactive filter stage and the render    *)
(* cycle of main(); and of the two helper scripts, the launcher and the    *)
(* deployment helper.                                                      *)
(*                                                                         *)
(* Representation.  A Python str is a sequence of one-character strings,   *)
(* so that split, strip, lower and "in" are modelled by what they do.  A   *)
(* missing value (None / NaN) of a text column is the value None below,    *)
(* which is not a sequence of characters.  A number of the rating column   *)
(* is a record Num(v) with v in half units (R(8) is the rating 8.0, R(8)-1 *)
(* is 7.5), and the float NaN is the record NaN: every ordering comparison *)
(* with NaN is False, as in Python.                                        *)
(*                                                                         *)
(* Specifications.  SpecRoute and SpecSegment call one field deriver on    *)
(* one argument.  Spec runs the load and the filter stage of main() over   *)
(* every small input file.  SpecViews calls the analytical views, in the   *)
(* order of main(), on working subsets long enough to reach the minimum    *)
(* samples.  SpecCycles runs whole render cycles, load, filters and views, *)
(* in one process, and SpecReload lets the input file appear meanwhile.    *)
(* SpecOverview runs a cycle from small input files up to the overview.    *)
(* SpecThemes calls extract_review_themes.  SpecScripts is one run of      *)
(* src/launch_dashboard.py or of src/deploy_helper.py.  The charts are     *)
(* drawn by the plotting library from the tables modelled here; the        *)
(* library calls, and analyze_happiness_drivers which only draws, are not  *)
(* part of the model.                                                      *)
(***************************************************************************)
EXTENDS Integers, Sequences, FiniteSets, TLC

VARIABLES
    route_str,      \* parse_route: the argument of the call under study
    route_out,      \* parse_route: its outcome (a triple, or an exception)
    rating_in,      \* categorize_satisfaction: the argument
    segment_out,    \* categorize_satisfaction: the label returned
    variant,        \* which dashboard script the process runs
    csv,            \* 'Airline Review.csv': whether it exists, and its records
    cache,          \* st.cache_data's entry for load_and_process_data
    df,             \* main(): the base table of the running cycle
    df_at_load,     \* the base table as load_and_process_data returned it
    filtered_df,    \* main(): the working subset of the running cycle
    selected,       \* the widget values of the running cycle
    shown,          \* the views run in the cycle and the tables they displayed
    parses,         \* how often the body of load_and_process_data has run
    cycle,          \* the number of the running cycle, where cycles are counted
    pc,             \* main(): position in the script
    theme_df,       \* extract_review_themes: the records of the argument df
    sentiment_in,   \* extract_review_themes: the argument sentiment
    theme_out,      \* extract_review_themes: the list returned, <<>> before
    script,         \* which helper script runs: the launcher or the deployer
    trace,          \* the script's dealings with the outside, in their order
    spc             \* the script's position in its main()

vars == <<route_str, route_out, rating_in, segment_out, variant, csv, cache,
          df, df_at_load, filtered_df, selected, shown, parses, cycle, pc,
          theme_df, sentiment_in, theme_out, script, trace, spc>>

routeVars == <<route_str, route_out>>
segmentVars == <<rating_in, segment_out>>
themeVars == <<theme_df, sentiment_in, theme_out>>
scriptVars == <<script, trace, spc>>
dashVars == <<variant, csv, cache, df, df_at_load, filtered_df, selected,
              shown, parses, cycle, pc>>

(***************************************************************************)
(* Bounds of the model.                                                    *)
(***************************************************************************)
\* a route string is the concatenation of at most MaxPieces pieces
MaxPieces == 5

\* the ratings of the segment specification run from -MaxHalves to MaxHalves
\* half units (-30.0 to 30.0 in steps of 0.5)
MaxHalves == 60

\* the input file holds at most MaxRows review records
MaxRows == 2

\* a process runs at most MaxCycles render cycles where they are counted
MaxCycles == 2

\* extract_review_themes is handed at most MaxReviews records
MaxReviews == 2

\* the input file of the overview specification holds at most MaxRecords
\* records
MaxRecords == 3

(***************************************************************************)
(* Python strings.                                                         *)
(***************************************************************************)
None == <<"None">>

IsNa(x) == x = None

\* str.lower(), on the characters the model's strings are made of
LowerChar(c) ==
    CASE c = "T" -> "t"
      [] c = "O" -> "o"
      [] c = "V" -> "v"
      [] c = "I" -> "i"
      [] c = "A" -> "a"
      [] c = "C" -> "c"
      [] c = "X" -> "x"
      [] c = "Y" -> "y"
      [] c = "Z" -> "z"
      [] c = "E" -> "e"
      [] c = "S" -> "s"
      [] c = "N" -> "n"
      [] OTHER -> c

Lower(s) == [i \in 1..Len(s) |-> LowerChar(s[i])]

\* whether sep occurs in s at position i
MatchAt(s, sep, i) ==
    /\ i >= 1
    /\ i + Len(sep) - 1 <= Len(s)
    /\ \A k \in 1..Len(sep) : s[i + k - 1] = sep[k]

\* Python's "sep in s"
Contains(s, sep) == \E i \in 1..Len(s) : MatchAt(s, sep, i)

\* str.find(sep) + 1: the first position of sep in s; 0 when there is none
Find(s, sep) ==
    IF Contains(s, sep)
    THEN CHOOSE i \in 1..Len(s) :
            /\ MatchAt(s, sep, i)
            /\ \A j \in 1..(i - 1) : ~MatchAt(s, sep, j)
    ELSE 0

\* str.split(sep, 1): the list of one or two parts
Split1(s, sep) ==
    LET i == Find(s, sep)
    IN  IF i = 0
        THEN <<s>>
        ELSE <<SubSeq(s, 1, i - 1), SubSeq(s, i + Len(sep), Len(s))>>

RECURSIVE LStrip(_)
LStrip(s) ==
    IF s /= <<>> /\ Head(s) = " " THEN LStrip(Tail(s)) ELSE s

RECURSIVE RStrip(_)
RStrip(s) ==
    IF s /= <<>> /\ s[Len(s)] = " " THEN RStrip(SubSeq(s, 1, Len(s) - 1)) ELSE s

\* str.strip()
Strip(s) == RStrip(LStrip(s))

SepVia == <<" ", "v", "i", "a", " ">>
SepTo == <<" ", "t", "o", " ">>

(***************************************************************************)
(* parse_route.  The outcome is either a returned triple or the exception  *)
(* the call raises: unpacking "a, b = parts" raises ValueError when parts  *)
(* has a single element.                                                   *)
(***************************************************************************)
Returned(o, d, v) ==
    [state |-> "returned", origin |-> o, destination |-> d, via |-> v]

Raised ==
    [state |-> "raised", origin |-> None, destination |-> None, via |-> None]

NotCalled ==
    [state |-> "pending", origin |-> None, destination |-> None, via |-> None]

\* "origin, destination = main_route.split(' to ', 1)" and the return after it
ViaToSwapped(main_route, via_city) ==
    LET toParts == Split1(main_route, SepTo)
    IN  IF Len(toParts) /= 2
        THEN Raised
        ELSE Returned(Strip(toParts[2]), Strip(toParts[1]), via_city)

ViaToBranch(main_route, via_city) ==
    LET toParts == Split1(main_route, SepTo)
    IN  IF Len(toParts) /= 2
        THEN Raised
        ELSE Returned(Strip(toParts[1]), Strip(toParts[2]), via_city)

\* the else branch under " via ": the whole stripped route_str is returned
ViaFallbackMainRoute(s, main_route) == Returned(main_route, None, None)

ViaFallbackKeepsVia(s, main_route) ==
    Returned(main_route, None, Strip(Split1(s, SepVia)[2]))

ViaFallback(s, main_route) == Returned(s, None, None)

\* the elif branch: " to " without " via "
ToBranch(s) ==
    LET parts == Split1(s, SepTo)
    IN  IF Len(parts) = 2
        THEN Returned(Strip(parts[1]), Strip(parts[2]), None)
        ELSE Returned(s, None, None)

ParseRoute(arg) ==
    IF IsNa(arg)
    THEN Returned(None, None, None)
    ELSE
      LET s == Strip(arg)
      IN  IF Contains(Lower(s), SepVia)
          THEN LET viaParts == Split1(s, SepVia)
               IN  IF Len(viaParts) /= 2
                   THEN Raised
                   ELSE LET main_route == viaParts[1]
                            via_city == Strip(viaParts[2])
                        IN  IF Contains(Lower(main_route), SepTo)
                            THEN ViaToBranch(main_route, via_city)
                            ELSE ViaFallback(s, main_route)
          ELSE IF Contains(Lower(s), SepTo)
          THEN ToBranch(s)
          ELSE Returned(s, None, None)

(***************************************************************************)
(* The route strings the route specification draws from: concatenations of *)
(* city names, blanks and separators in lower and mixed case.              *)
(***************************************************************************)
Pieces ==
    { <<"X">>, <<"Y">>, <<" ">>,
      <<" ", "t", "o", " ">>, <<" ", "T", "o", " ">>,
      <<" ", "v", "i", "a", " ">>, <<" ", "V", "i", "a", " ">> }

RECURSIVE Concat(_)
Concat(ps) == IF ps = <<>> THEN <<>> ELSE Head(ps) \o Concat(Tail(ps))

\* route_str is missing, or the concatenation of at most MaxPieces pieces
IsRouteInput(s) ==
    \/ s = None
    \/ \E n \in 0..MaxPieces : \E ps \in [1..n -> Pieces] : s = Concat(ps)

(***************************************************************************)
(* Ratings and categorize_satisfaction.                                    *)
(***************************************************************************)
NaN == [nan |-> TRUE, v |-> 0]

Num(x) == [nan |-> FALSE, v |-> x]

\* the rating x of the source, in the model's half units
R(x) == 2 * x

(***************************************************************************)
(* categorize_satisfaction.  Every comparison of NaN is False, so the      *)
(* chain of elifs falls through to its else branch.                        *)
(***************************************************************************)
GE(r, x) == ~r.nan /\ r.v >= x

LE(r, x) == ~r.nan /\ r.v <= x

Happy == "Happy (8-10)"
Neutral == "Neutral (6-7)"
Disappointed == "Disappointed (3-5)"
VeryDisappointed == "Very Disappointed (1-2)"

SegmentLabels == {Happy, Neutral, Disappointed, VeryDisappointed}

CategorizeStrict(rating) ==
    IF ~rating.nan /\ rating.v > R(8) THEN Happy
    ELSE IF ~rating.nan /\ rating.v > R(6) THEN Neutral
    ELSE IF ~rating.nan /\ rating.v > R(3) THEN Disappointed
    ELSE VeryDisappointed

CategorizeSatisfaction(rating) ==
    IF GE(rating, R(8)) THEN Happy
    ELSE IF GE(rating, R(6)) THEN Neutral
    ELSE IF GE(rating, R(3)) THEN Disappointed
    ELSE VeryDisappointed

(***************************************************************************)
(* Tables.  A text cell is T(name), one opaque token, or None; a table is  *)
(* its rows in index order plus whether it has a 'Review Date' column.     *)
(* The variable df is NoTable where the script holds no table (df is None, *)
(* or the script has not reached the load).                                *)
(***************************************************************************)
T(name) == <<name>>

All == T("All")

NaT == <<"NaT">>

Timestamp(day) == <<"Timestamp", day>>

NoTable == [none |-> TRUE, has_date |-> FALSE, rows |-> <<>>]

Table(has_date, rows) == [none |-> FALSE, has_date |-> has_date, rows |-> rows]

NoSelection == [airline |-> All, seat |-> All, traveller |-> All,
                lo |-> NaN, hi |-> NaN]

EmptyCache == [set |-> FALSE, value |-> NoTable]

\* pd.to_datetime(x, errors='coerce') on one cell
ToDatetime(x) ==
    IF x = T("5th May 2023") THEN Timestamp("2023-05-05")
    ELSE NaT

\* the rows of a table that satisfy a row predicate, in order (df[mask])
RECURSIVE Mask(_, _)
Mask(rows, keep) ==
    IF rows = <<>> THEN <<>>
    ELSE IF keep[1]
         THEN <<Head(rows)>> \o Mask(Tail(rows), Tail(keep))
         ELSE Mask(Tail(rows), Tail(keep))

\* sorted(df[col].dropna().unique().tolist()), as the set of the options
Options(rows, col) ==
    { rows[i][col] : i \in 1..Len(rows) } \ {None}

(***************************************************************************)
(* load_and_process_data, as the function body runs on a cache miss.       *)
(***************************************************************************)
\* the derived columns of one record; raised is whether parse_route raised
Derive(v, row) ==
    LET p == ParseRoute(row.route)
        base == [airline |-> row.airline, seat |-> row.seat,
                 traveller |-> row.traveller, rating |-> row.rating,
                 route |-> row.route, review |-> row.review,
                 review_date |-> row.review_date,
                 recommended |-> row.recommended,
                 origin |-> p.origin, destination |-> p.destination,
                 via |-> p.via,
                 segment |-> CategorizeSatisfaction(row.rating)]
    IN  IF v = "advanced"
        THEN [c \in DOMAIN base \cup {"review_length"} |->
                IF c = "review_length"
                THEN (IF IsNa(row.review) THEN 0 ELSE Len(row.review))
                ELSE base[c]]
        ELSE base

LoadAndProcessData(v, file) ==
    IF ~file.exists
    THEN NoTable
    ELSE IF \E i \in 1..Len(file.rows) :
                ParseRoute(file.rows[i].route).state = "raised"
    THEN NoTable
    ELSE Table(file.has_date,
               [i \in 1..Len(file.rows) |-> Derive(v, file.rows[i])])

(***************************************************************************)
(* create_interactive_filters.                                             *)
(***************************************************************************)
\* the sidebar's choices for a table: each selectbox offers 'All' and the
\* column's values; the advanced dashboard adds the rating slider, which
\* runs from 1.0 to 10.0 in steps of 0.5 and is tried at these positions
SliderStops == {R(1), R(5), R(10)}

Selections(v, table) ==
    [airline : {All} \cup Options(table.rows, "airline"),
     seat : {All} \cup Options(table.rows, "seat"),
     traveller : {All} \cup Options(table.rows, "traveller"),
     lo : IF v = "advanced" THEN { Num(x) : x \in SliderStops } ELSE {NaN},
     hi : IF v = "advanced" THEN { Num(x) : x \in SliderStops } ELSE {NaN}]

\* a range slider never returns its handles crossed
ValidSelection(v, sel) ==
    v = "advanced" => sel.lo.v <= sel.hi.v

\* the basic dashboard converts the 'Review Date' column of df in place
ConvertReviewDate(v, table) ==
    IF v = "basic" /\ table.has_date
    THEN Table(TRUE,
               [i \in 1..Len(table.rows) |->
                   [table.rows[i] EXCEPT
                       !.review_date = ToDatetime(table.rows[i].review_date)]])
    ELSE table

\* "if selected != 'All': filtered_df = filtered_df[filtered_df[col] == selected]"
FilterEqual(rows, col, choice) ==
    IF choice /= All
    THEN Mask(rows, [i \in 1..Len(rows) |-> rows[i][col] = choice])
    ELSE rows

\* the rating mask of the advanced dashboard
FilterRating(v, rows, lo, hi) ==
    IF v = "advanced"
    THEN Mask(rows, [i \in 1..Len(rows) |->
                       GE(rows[i].rating, lo.v) /\ LE(rows[i].rating, hi.v)])
    ELSE rows

\* each mask taken on the unfiltered table: the last active filter wins
ApplyFiltersLastWins(v, table, sel) ==
    LET f0 == table.rows
        f1 == FilterEqual(f0, "airline", sel.airline)
        f2 == IF sel.seat /= All THEN FilterEqual(f0, "seat", sel.seat) ELSE f1
        f3 == IF sel.traveller /= All
              THEN FilterEqual(f0, "traveller", sel.traveller) ELSE f2
        f4 == FilterRating(v, f3, sel.lo, sel.hi)
    IN  Table(table.has_date, f4)

ApplyFilters(v, table, sel) ==
    LET f0 == table.rows
        f1 == FilterEqual(f0, "airline", sel.airline)
        f2 == FilterEqual(f1, "seat", sel.seat)
        f3 == FilterEqual(f2, "traveller", sel.traveller)
        f4 == FilterRating(v, f3, sel.lo, sel.hi)
    IN  Table(table.has_date, f4)

(***************************************************************************)
(* extract_review_themes of the advanced dashboard.                        *)
(***************************************************************************)
positive_themes ==
    << [theme |-> "Staff Service",
         keywords |->
           << <<"c", "r", "e", "w">>,
              <<"s", "t", "a", "f", "f">>,
              <<"s", "e", "r", "v", "i", "c", "e">>,
              <<"f", "r", "i", "e", "n", "d", "l", "y">>,
              <<"h", "e", "l", "p", "f", "u", "l">>,
              <<"p", "r", "o", "f", "e", "s", "s", "i", "o", "n", "a", "l">> >>],
       [theme |-> "Comfort",
         keywords |->
           << <<"c", "o", "m", "f", "o", "r", "t", "a", "b", "l", "e">>,
              <<"s", "e", "a", "t">>,
              <<"l", "e", "g", "r", "o", "o", "m">>,
              <<"s", "p", "a", "c", "i", "o", "u", "s">>,
              <<"c", "l", "e", "a", "n">> >>],
       [theme |-> "Food & Beverage",
         keywords |->
           << <<"f", "o", "o", "d">>,
              <<"m", "e", "a", "l">>,
              <<"d", "r", "i", "n", "k">>,
              <<"b", "e", "v", "e", "r", "a", "g", "e">>,
              <<"d", "e", "l", "i", "c", "i", "o", "u", "s">>,
              <<"t", "a", "s", "t", "y">> >>],
       [theme |-> "Efficiency",
         keywords |->
           << <<"o", "n", " ", "t", "i", "m", "e">>,
              <<"p", "u", "n", "c", "t", "u", "a", "l">>,
              <<"q", "u", "i", "c", "k">>,
              <<"f", "a", "s", "t">>,
              <<"e", "f", "f", "i", "c", "i", "e", "n", "t">> >>],
       [theme |-> "Value",
         keywords |->
           << <<"v", "a", "l", "u", "e">>,
              <<"p", "r", "i", "c", "e">>,
              <<"c", "h", "e", "a", "p">>,
              <<"r", "e", "a", "s", "o", "n", "a", "b", "l", "e">>,
              <<"w", "o", "r", "t", "h">> >>],
       [theme |-> "Entertainment",
         keywords |->
           << <<"e", "n", "t", "e", "r", "t", "a", "i", "n", "m", "e", "n", "t">>,
              <<"m", "o", "v", "i", "e">>,
              <<"t", "v">>,
              <<"s", "c", "r", "e", "e", "n">>,
              <<"w", "i", "f", "i">> >>],
       [theme |-> "Airport Experience",
         keywords |->
           << <<"c", "h", "e", "c", "k", "-", "i", "n">>,
              <<"b", "o", "a", "r", "d", "i", "n", "g">>,
              <<"a", "i", "r", "p", "o", "r", "t">>,
              <<"l", "o", "u", "n", "g", "e">>,
              <<"g", "a", "t", "e">> >>] >>

negative_themes ==
    << [theme |-> "Poor Service",
         keywords |->
           << <<"p", "o", "o", "r", " ", "s", "e", "r", "v", "i", "c", "e">>,
              <<"r", "u", "d", "e">>,
              <<"u", "n", "p", "r", "o", "f", "e", "s", "s", "i", "o", "n", "a", "l">>,
              <<"s", "l", "o", "w", " ", "s", "e", "r", "v", "i", "c", "e">>,
              <<"b", "a", "d", " ", "s", "e", "r", "v", "i", "c", "e">> >>],
       [theme |-> "Delays",
         keywords |->
           << <<"d", "e", "l", "a", "y">>,
              <<"l", "a", "t", "e">>,
              <<"c", "a", "n", "c", "e", "l", "l", "e", "d">>,
              <<"p", "o", "s", "t", "p", "o", "n", "e", "d">>,
              <<"w", "a", "i", "t", "i", "n", "g">> >>],
       [theme |-> "Discomfort",
         keywords |->
           << <<"u", "n", "c", "o", "m", "f", "o", "r", "t", "a", "b", "l", "e">>,
              <<"c", "r", "a", "m", "p", "e", "d">>,
              <<"d", "i", "r", "t", "y">>,
              <<"b", "r", "o", "k", "e", "n">>,
              <<"s", "m", "a", "l", "l", " ", "s", "e", "a", "t">> >>],
       [theme |-> "Food Issues",
         keywords |->
           << <<"b", "a", "d", " ", "f", "o", "o", "d">>,
              <<"p", "o", "o", "r", " ", "m", "e", "a", "l">>,
              <<"n", "o", " ", "f", "o", "o", "d">>,
              <<"t", "e", "r", "r", "i", "b", "l", "e", " ", "f", "o", "o", "d">>,
              <<"c", "o", "l", "d", " ", "f", "o", "o", "d">> >>],
       [theme |-> "Booking Problems",
         keywords |->
           << <<"b", "o", "o", "k", "i", "n", "g">>,
              <<"r", "e", "s", "e", "r", "v", "a", "t", "i", "o", "n">>,
              <<"w", "e", "b", "s", "i", "t", "e">>,
              <<"c", "u", "s", "t", "o", "m", "e", "r", " ", "s", "e", "r", "v", "i", "c", "e">> >>],
       [theme |-> "Baggage Issues",
         keywords |->
           << <<"b", "a", "g", "g", "a", "g", "e">>,
              <<"l", "u", "g", "g", "a", "g", "e">>,
              <<"l", "o", "s", "t">>,
              <<"d", "a", "m", "a", "g", "e", "d">>,
              <<"e", "x", "t", "r", "a", " ", "c", "h", "a", "r", "g", "e">> >>],
       [theme |-> "Communication",
         keywords |->
           << <<"i", "n", "f", "o", "r", "m", "a", "t", "i", "o", "n">>,
              <<"c", "o", "m", "m", "u", "n", "i", "c", "a", "t", "i", "o", "n">>,
              <<"a", "n", "n", "o", "u", "n", "c", "e", "m", "e", "n", "t">>,
              <<"l", "a", "n", "g", "u", "a", "g", "e", " ", "b", "a", "r", "r", "i", "e", "r">> >>] >>

\* the first text alone
JoinFirstOnly(texts) == IF texts = <<>> THEN <<>> ELSE texts[1]

\* ' '.join(texts)
RECURSIVE Join(_)
Join(texts) ==
    IF texts = <<>> THEN <<>>
    ELSE IF Len(texts) = 1 THEN texts[1]
    ELSE texts[1] \o <<" ">> \o Join(Tail(texts))

\* str.count: the places in s, from position i on, where the scan finds
\* keyword: the leftmost occurrence, then the leftmost one behind it
RECURSIVE Occurrences(_, _, _)
Occurrences(s, keyword, i) ==
    LET found == { j \in i..(Len(s) - Len(keyword) + 1) :
                     MatchAt(s, keyword, j) }
    IN  IF found = {} THEN {}
        ELSE LET j == CHOOSE x \in found : \A y \in found : x <= y
             IN  {j} \cup Occurrences(s, keyword, j + Len(keyword))

\* every occurrence counted, overlapping ones too
StrCountOverlapping(s, chars, keyword) ==
    { i \in 1..Len(s) : MatchAt(s, keyword, i) }

\* the occurrences s.count(keyword) counts, where chars is the set of the
\* characters of s: a keyword whose first character is not in s does not
\* occur in it
StrCount(s, chars, keyword) ==
    IF keyword[1] \notin chars THEN {} ELSE Occurrences(s, keyword, 1)

\* "sum(all_text.count(keyword) for keyword in keywords)"
ThemeCount(all_text, chars, keywords) ==
    Cardinality(UNION { { <<k, j>> : j \in StrCount(all_text, chars, keywords[k]) } :
                          k \in 1..Len(keywords) })

\* the reviews of the selected records, a missing review as ''
SentimentReviews(rows, sentiment) ==
    LET keep == [i \in 1..Len(rows) |->
                    IF sentiment = "positive" THEN GE(rows[i].rating, R(8))
                    ELSE LE(rows[i].rating, R(3))]
        sel == Mask(rows, keep)
    IN  [i \in 1..Len(sel) |-> IF IsNa(sel[i].review) THEN <<>>
                               ELSE sel[i].review]

\* the (theme, count) pairs in the order sorted() found them
SortedUnsorted(items) == items

\* sorted(items, key=lambda x: x[1], reverse=True): a stable sort, so pairs
\* of equal count keep the order they had
RECURSIVE Sorted(_)
Sorted(items) ==
    IF Len(items) <= 1 THEN items
    ELSE LET s == Sorted(SubSeq(items, 1, Len(items) - 1))
             x == items[Len(items)]
             p == Cardinality({ i \in 1..Len(s) : s[i].count >= x.count })
         IN  SubSeq(s, 1, p) \o <<x>> \o SubSeq(s, p + 1, Len(s))

ExtractReviewThemes(rows, sentiment) ==
    LET reviews == SentimentReviews(rows, sentiment)
        all_text == Lower(Join(reviews))
        chars == { all_text[i] : i \in 1..Len(all_text) }
        themes == IF sentiment = "positive" THEN positive_themes
                  ELSE negative_themes
        theme_counts == [t \in 1..Len(themes) |->
                            [theme |-> themes[t].theme,
                             count |-> ThemeCount(all_text, chars,
                                                  themes[t].keywords)]]
    IN  Sorted(theme_counts)

(***************************************************************************)
(* The grouped aggregator of the views: groupby, mean, count, the minimum  *)
(* sample filter, sort_values, head and tail.  A mean is the fraction      *)
(* num/den, or NaN when no value entered it.                               *)
(***************************************************************************)
\* the group keys of the model's records in Python's string order
Collation ==
    << T("Acme"), T("Business"), T("Couple"), T("Economy"), T("Solo"),
       <<"X">>, <<"X", " ", "t", "o", " ", "Y">>, <<"Y">>,
       <<"Y", " ", "t", "o", " ", "X">>, T("Zed") >>

\* df.groupby(col): one group per value of the column, in sorted key order;
\* a record whose key is missing is in no group
GroupBy(rows, col) ==
    LET keys == SelectSeq(Collation,
                    LAMBDA k : \E i \in 1..Len(rows) : rows[i][col] = k)
    IN  [j \in 1..Len(keys) |->
            [key |-> keys[j],
             rows |-> Mask(rows, [i \in 1..Len(rows) |->
                                     rows[i][col] = keys[j]])]]

NaNMean == [nan |-> TRUE, num |-> 0, den |-> 1]

Frac(n, d) == [nan |-> FALSE, num |-> n, den |-> d]

RECURSIVE RatingSum(_)
RatingSum(rows) ==
    IF rows = <<>> THEN 0
    ELSE (IF rows[1].rating.nan THEN 0 ELSE rows[1].rating.v)
         + RatingSum(Tail(rows))

\* the number of records, rated or not
RatingCountOfRows(rows) == Len(rows)

\* 'count': the number of non-missing ratings
RatingCount(rows) ==
    Cardinality({ i \in 1..Len(rows) : ~rows[i].rating.nan })

\* 'mean' of Overall_Rating, in points: missing ratings are skipped
RatingMean(rows) ==
    IF RatingCount(rows) = 0 THEN NaNMean
    ELSE Frac(RatingSum(rows), 2 * RatingCount(rows))

\* "(mask).mean() * 100" of a boolean column: every record is in the denominator
Rate(rows, hit) ==
    IF rows = <<>> THEN NaNMean
    ELSE Frac(100 * Cardinality({ i \in 1..Len(rows) : hit[i] }), Len(rows))

RecommendationRate(rows) ==
    Rate(rows, [i \in 1..Len(rows) |-> rows[i].recommended = T("yes")])

\* the share of the happy among the records that have a rating
HappyRateOfRated(rows) ==
    LET rated == SelectSeq(rows, LAMBDA r : ~r.rating.nan)
    IN  Rate(rated, [i \in 1..Len(rated) |-> GE(rated[i].rating, R(8))])

HappyRate(rows) ==
    Rate(rows, [i \in 1..Len(rows) |-> GE(rows[i].rating, R(8))])

\* a / n rounded to the nearest integer, halves to the even neighbour
RoundDiv(a, n) ==
    LET q == a \div n
        r == a % n
    IN  IF 2 * r < n THEN q
        ELSE IF 2 * r > n THEN q + 1
        ELSE IF q % 2 = 0 THEN q ELSE q + 1

\* .round(2)
Round2(m) ==
    IF m.nan THEN m ELSE Frac(RoundDiv(100 * m.num, m.den), 100)

\* whether the mean a is greater than the mean b; False when either is NaN
Greater(a, b) == ~a.nan /\ ~b.nan /\ a.num * b.den > b.num * a.den

\* .agg({'Overall_Rating': ['mean', 'count'], 'Recommended': ...}).round(2)
AggRounded(rows, col) ==
    LET g == GroupBy(rows, col)
    IN  [j \in 1..Len(g) |->
            [key |-> g[j].key,
             Avg_Rating |-> Round2(RatingMean(g[j].rows)),
             Review_Count |-> RatingCount(g[j].rows),
             Recommendation_Rate |-> Round2(RecommendationRate(g[j].rows))]]

\* .agg({'Overall_Rating': ['mean', 'count']}).round(2)
AggRatingRounded(rows, col) ==
    LET g == GroupBy(rows, col)
    IN  [j \in 1..Len(g) |->
            [key |-> g[j].key,
             Avg_Rating |-> Round2(RatingMean(g[j].rows)),
             Review_Count |-> RatingCount(g[j].rows)]]

\* .groupby(col)['Overall_Rating'].agg(['mean', 'count'])
AggMeanCount(rows, col) ==
    LET g == GroupBy(rows, col)
    IN  [j \in 1..Len(g) |->
            [key |-> g[j].key,
             Avg_Rating |-> RatingMean(g[j].rows),
             Review_Count |-> RatingCount(g[j].rows)]]

\* the minimum sample of each thresholded view
MinReviews(v, view) ==
    CASE v = "basic" /\ view = "route" -> 10
      [] v = "basic" /\ view = "airline" -> 20
      [] v = "advanced" /\ view = "airline" -> 10
      [] v = "advanced" /\ view = "route" -> 5
      [] v = "advanced" /\ view = "origin" -> 10
      [] v = "advanced" /\ view = "destination" -> 10

\* the filter left out: every group is kept
MinSampleKeepsAll(tbl, threshold) == tbl

\* "tbl[tbl['Review_Count'] >= threshold]"
MinSample(tbl, threshold) ==
    Mask(tbl, [j \in 1..Len(tbl) |-> tbl[j].Review_Count >= threshold])

\* the table left in the order groupby produced
SortValuesSkipped(tbl, by) == tbl

\* sort_values(by, ascending=False): highest value first, NaN last, rows of
\* equal value in the order they had
RECURSIVE SortValues(_, _)
SortValues(tbl, by) ==
    IF Len(tbl) <= 1 THEN tbl
    ELSE LET s == SortValues(SubSeq(tbl, 1, Len(tbl) - 1), by)
             x == tbl[Len(tbl)]
             first(a, b) == (~a.nan /\ b.nan) \/ Greater(a, b)
             p == Cardinality({ i \in 1..Len(s) : ~first(x[by], s[i][by]) })
         IN  SubSeq(s, 1, p) \o <<x>> \o SubSeq(s, p + 1, Len(s))

\* .head(n)
HeadRows(tbl, n) == SubSeq(tbl, 1, IF n < Len(tbl) THEN n ELSE Len(tbl))

\* the last rows, turned round: lowest mean first
TailRowsAscending(tbl, n) ==
    LET t == SubSeq(tbl, IF n < Len(tbl) THEN Len(tbl) - n + 1 ELSE 1, Len(tbl))
    IN  [i \in 1..Len(t) |-> t[Len(t) + 1 - i]]

\* .tail(n)
TailRows(tbl, n) ==
    SubSeq(tbl, IF n < Len(tbl) THEN Len(tbl) - n + 1 ELSE 1, Len(tbl))

(***************************************************************************)
(* The analytical views.  Each is given the working subset and returns the *)
(* tables it displayed, whether it raised, and the subset as it left it.   *)
(* The charting layer and the service-rating columns are outside the       *)
(* model, and with them analyze_happiness_drivers.                         *)
(***************************************************************************)
NoViews == [ran |-> <<>>, raised |-> FALSE, tables |-> <<>>]

Displayed(table, raised, tables) ==
    [table |-> table, raised |-> raised, tables |-> tables]

\* df['Satisfaction_Segment'].value_counts()
SegmentCounts(rows) ==
    [s \in { rows[i].segment : i \in 1..Len(rows) } |->
        Cardinality({ i \in 1..Len(rows) : rows[i].segment = s })]

\* the rate cut off behind its first decimal
Format1Truncates(m) ==
    IF m.nan THEN [nan |-> TRUE, whole |-> 0, tenth |-> 0]
    ELSE LET t == (10 * m.num) \div m.den
         IN  [nan |-> FALSE, whole |-> t \div 10, tenth |-> t % 10]

\* f"{rate:.1f}%": the rate rounded to one decimal, "nan%" for NaN
Format1(m) ==
    IF m.nan THEN [nan |-> TRUE, whole |-> 0, tenth |-> 0]
    ELSE LET t == RoundDiv(10 * m.num, m.den)
         IN  [nan |-> FALSE, whole |-> t \div 10, tenth |-> t % 10]

CreateSatisfactionOverview(v, table) ==
    Displayed(table, FALSE,
        ("avg_satisfaction" :> RatingMean(table.rows))
        @@ ("happy_rate" :> HappyRate(table.rows))
        @@ ("happy_metric" :> Format1(HappyRate(table.rows)))
        @@ ("recommendation_rate" :> RecommendationRate(table.rows))
        @@ ("recommendation_metric" :> Format1(RecommendationRate(table.rows)))
        @@ ("segment_dist" :> SegmentCounts(table.rows)))

\* df.groupby(col).apply(lambda x: (x['Overall_Rating'] >= 8).mean() * 100)
\*   .sort_values(ascending=False)
HappinessBy(rows, col) ==
    LET g == GroupBy(rows, col)
    IN  SortValues([j \in 1..Len(g) |->
                       [key |-> g[j].key, Happy_Rate |-> HappyRate(g[j].rows)]],
                   "Happy_Rate")

\* basic dashboard; idxmax() of an empty traveler_happiness raises
AnalyzeTravelerSegments(v, table) ==
    LET traveler_happiness == HappinessBy(table.rows, "traveller")
        seat_happiness == HappinessBy(table.rows, "seat")
    IN  Displayed(table, traveler_happiness = <<>>,
            ("traveler_happiness" :> traveler_happiness)
            @@ ("seat_happiness" :> seat_happiness))

\* the rows of the route charts: head(10) / tail(10) and head(12) / tail(12)
RouteRows(v) == IF v = "basic" THEN 10 ELSE 12

\* the rows of the origin and destination charts
CityRows == 10

AnalyzeGeographicPerformance(v, table) ==
    LET agg == IF v = "basic" THEN AggRatingRounded(table.rows, "route")
               ELSE AggRounded(table.rows, "route")
        route_performance ==
            SortValues(MinSample(agg, MinReviews(v, "route")), "Avg_Rating")
        origin_performance ==
            HeadRows(SortValues(MinSample(AggMeanCount(table.rows, "origin"),
                                          MinReviews(v, "origin")),
                                "Avg_Rating"), CityRows)
        dest_performance ==
            HeadRows(SortValues(MinSample(AggMeanCount(table.rows, "destination"),
                                          MinReviews(v, "destination")),
                                "Avg_Rating"), CityRows)
        routes == ("top_routes" :> HeadRows(route_performance, RouteRows(v)))
                  @@ ("bottom_routes" :> TailRows(route_performance, RouteRows(v)))
    IN  Displayed(table, FALSE,
            IF v = "basic" THEN routes
            ELSE routes @@ ("origin_performance" :> origin_performance)
                        @@ ("dest_performance" :> dest_performance))

\* "best_airline = airline_metrics.iloc[0]" raises IndexError on an empty table
AnalyzeCompetitiveLandscape(v, table) ==
    LET airline_metrics ==
            SortValues(MinSample(AggRounded(table.rows, "airline"),
                                 MinReviews(v, "airline")), "Avg_Rating")
    IN  Displayed(table, airline_metrics = <<>>,
                  "airline_metrics" :> airline_metrics)

RECURSIVE LengthSum(_)
LengthSum(rows) ==
    IF rows = <<>> THEN 0 ELSE rows[1].review_length + LengthSum(Tail(rows))

\* 'mean' of Review_Length over a group
LengthMean(rows) ==
    IF rows = <<>> THEN NaNMean ELSE Frac(LengthSum(rows), Len(rows))

SegmentRows(rows, s) ==
    Mask(rows, [i \in 1..Len(rows) |-> rows[i].segment = s])

\* "df['Review_Length'] = df['Review'].fillna('').astype(str).str.len()" of
\* analyze_review_themes: the basic dashboard assigns the column to the
\* table it is given
AddReviewLength(v, table) ==
    IF v = "basic"
    THEN Table(table.has_date,
               [i \in 1..Len(table.rows) |->
                   LET row == table.rows[i]
                   IN  [c \in DOMAIN row \cup {"review_length"} |->
                          IF c = "review_length"
                          THEN (IF IsNa(row.review) THEN 0 ELSE Len(row.review))
                          ELSE row[c]]])
    ELSE table

\* basic dashboard: the theme lists are fixed text; the chart is the mean
\* review length of each satisfaction segment
AnalyzeReviewThemes(v, table) ==
    LET with_length == AddReviewLength(v, table)
        rows == with_length.rows
        review_satisfaction ==
            [s \in { rows[i].segment : i \in 1..Len(rows) } |->
                LengthMean(SegmentRows(rows, s))]
    IN  Displayed(with_length, FALSE,
                  "review_satisfaction" :> review_satisfaction)

\* advanced dashboard
AnalyzeReviewThemesAdvanced(v, table) ==
    LET rows == table.rows
        review_stats ==
            [s \in { rows[i].segment : i \in 1..Len(rows) } |->
                [Avg_Length |-> Round2(LengthMean(SegmentRows(rows, s))),
                 Count |-> Len(SegmentRows(rows, s)),
                 Avg_Rating |-> Round2(RatingMean(SegmentRows(rows, s)))]]
    IN  Displayed(table, FALSE,
            ("positive_themes" :> ExtractReviewThemes(rows, "positive"))
            @@ ("negative_themes" :> ExtractReviewThemes(rows, "negative"))
            @@ ("review_stats" :> review_stats))

\* .agg({'Overall_Rating': 'mean', 'Recommended': ...}).round(2), sorted
PerformanceBy(rows, col) ==
    LET g == GroupBy(rows, col)
    IN  SortValues([j \in 1..Len(g) |->
                       [key |-> g[j].key,
                        Avg_Rating |-> Round2(RatingMean(g[j].rows)),
                        Recommendation_Rate |->
                            Round2(RecommendationRate(g[j].rows))]],
                   "Avg_Rating")

\* advanced dashboard
AnalyzeClassAndTravelerSegments(v, table) ==
    Displayed(table, FALSE,
        ("class_performance" :> PerformanceBy(table.rows, "seat"))
        @@ ("traveler_performance" :> PerformanceBy(table.rows, "traveller")))

\* main(): the views in the order the script calls them
ViewOrder(v) ==
    IF v = "basic"
    THEN <<"create_satisfaction_overview", "analyze_traveler_segments",
           "analyze_geographic_performance", "analyze_competitive_landscape",
           "analyze_review_themes">>
    ELSE <<"create_satisfaction_overview", "analyze_review_themes_advanced",
           "analyze_competitive_landscape", "analyze_geographic_performance",
           "analyze_class_and_traveler_segments">>

View(name, v, table) ==
    CASE name = "create_satisfaction_overview" ->
            CreateSatisfactionOverview(v, table)
      [] name = "analyze_traveler_segments" ->
            AnalyzeTravelerSegments(v, table)
      [] name = "analyze_geographic_performance" ->
            AnalyzeGeographicPerformance(v, table)
      [] name = "analyze_competitive_landscape" ->
            AnalyzeCompetitiveLandscape(v, table)
      [] name = "analyze_review_themes" ->
            AnalyzeReviewThemes(v, table)
      [] name = "analyze_review_themes_advanced" ->
            AnalyzeReviewThemesAdvanced(v, table)
      [] name = "analyze_class_and_traveler_segments" ->
            AnalyzeClassAndTravelerSegments(v, table)

\* the record of the cycle's views after one more view has run: an
\* exception leaves the script, so the views behind it do not run
AfterView(sh, name, r) ==
    [ran |-> IF r.raised THEN sh.ran ELSE Append(sh.ran, name),
     raised |-> r.raised,
     tables |-> r.tables @@ sh.tables]

\* the views of one cycle, from the first view of order on
RECURSIVE RunViews(_, _, _, _)
RunViews(order, v, table, sh) ==
    IF order = <<>> \/ sh.raised
    THEN [table |-> table, shown |-> sh]
    ELSE LET r == View(Head(order), v, table)
         IN  RunViews(Tail(order), v, r.table, AfterView(sh, Head(order), r))

(***************************************************************************)
(* launch_dashboard.py and deploy_helper.py.  A run of a script is the     *)
(* sequence of its dealings with the outside: the files it tests, the      *)
(* questions it asks with the lines typed in answer, the commands it       *)
(* runs with their outcome, what its functions return and the blocks it    *)
(* prints.  A command started with subprocess returns, or exits with a     *)
(* non-zero status (CalledProcessError under check), or cannot be started  *)
(* (FileNotFoundError).                                                    *)
(***************************************************************************)
Ev(op, result, text) == [op |-> op, result |-> result, text |-> text]

Bool(b) == IF b THEN "True" ELSE "False"

Outcomes == {"ok", "CalledProcessError", "FileNotFoundError"}

\* the git commands behind check_git_installed: git has just been found
GitOutcomes == {"ok", "CalledProcessError"}

\* subprocess.run without check under "except KeyboardInterrupt / Exception"
LaunchOutcomes == {"returned", "KeyboardInterrupt", "Exception"}

\* the lines a user types at a prompt
Answers ==
    { <<"y">>, <<" ", "Y", "e", "s", " ">>, <<"Y", "E", "S">>, <<"n">>, <<>>,
      <<"y", "e", "s", "s">> }

\* the prompt taking any line that starts with y for a yes
SaysYesLoosely(text) ==
    LET a == Strip(Lower(text))
    IN  a /= <<>> /\ a[1] = "y"

\* "input(...).lower().strip() in ['y', 'yes']"
SaysYes(text) == Strip(Lower(text)) \in { <<"y">>, <<"y", "e", "s">> }

\* os.path.exists(filename), as the script found it
Exists(filename, found) == Ev("exists", Bool(found), <<filename>>)

\* input(question): the line typed, and whether the script takes it for yes
Asked(question, text) == Ev(question, Bool(SaysYes(text)), text)

\* install_requirements trying the core packages after any failure
InstallRequirementsRetries(o1, o2) ==
    LET first == Ev("pip install", o1, <<"-r requirements_advanced.txt">>)
        second == Ev("pip install", o2, <<"core packages">>)
    IN  IF o1 = "ok"
        THEN [calls |-> <<first>>, raised |-> FALSE, result |-> TRUE]
        ELSE [calls |-> <<first, second>>,
              raised |-> o2 = "FileNotFoundError",
              result |-> o2 = "ok"]

\* install_requirements: the pip calls it makes, whether an exception leaves
\* it, and what it returns otherwise
InstallRequirements(o1, o2) ==
    LET first == Ev("pip install", o1, <<"-r requirements_advanced.txt">>)
        second == Ev("pip install", o2, <<"core packages">>)
    IN  IF o1 = "FileNotFoundError"
        THEN [calls |-> <<first, second>>,
              raised |-> o2 = "FileNotFoundError",
              result |-> o2 = "ok"]
        ELSE [calls |-> <<first>>, raised |-> FALSE, result |-> o1 = "ok"]

\* two commands under one try: the second runs when the first succeeded
TwoCommands(c1, o1, c2, o2) ==
    IF o1 = "ok" THEN <<Ev(c1, o1, <<>>), Ev(c2, o2, <<>>)>>
    ELSE <<Ev(c1, o1, <<>>)>>

\* initialize_git_repo reporting success once "git init" went through
InitializeGitRepoAfterInit(o1, o2) ==
    [calls |-> TwoCommands("git init", o1, "git branch -M main", o2),
     result |-> o1 = "ok"]

\* initialize_git_repo: "git init", then "git branch -M main"
InitializeGitRepo(o1, o2) ==
    [calls |-> TwoCommands("git init", o1, "git branch -M main", o2),
     result |-> o1 = "ok" /\ o2 = "ok"]

\* commit_files: "git add .", then "git commit"
CommitFiles(o1, o2) ==
    [calls |-> TwoCommands("git add", o1, "git commit", o2),
     result |-> o1 = "ok" /\ o2 = "ok"]

\* check_required_files
RequiredFiles ==
    <<"advanced_airline_dashboard.py", "Airline Review.csv",
      "requirements_advanced.txt">>

(***************************************************************************)
(* Values of the variables a specification does not use.                   *)
(***************************************************************************)
DashIdle ==
    /\ variant = "none"
    /\ csv = [exists |-> FALSE, has_date |-> FALSE, rows |-> <<>>]
    /\ cache = EmptyCache
    /\ df = NoTable
    /\ df_at_load = NoTable
    /\ filtered_df = NoTable
    /\ selected = NoSelection
    /\ shown = NoViews
    /\ parses = 0
    /\ cycle = 0
    /\ pc = "idle"

SegmentIdle ==
    /\ rating_in = NaN
    /\ segment_out = "idle"

RouteIdle ==
    /\ route_str = None
    /\ route_out = NotCalled

ThemeIdle ==
    /\ theme_df = <<>>
    /\ sentiment_in = "none"
    /\ theme_out = <<>>

ScriptIdle ==
    /\ script = "none"
    /\ trace = <<>>
    /\ spc = "idle"

(***************************************************************************)
(* Spec: one Streamlit process running a dashboard script.  Every user     *)
(* interaction reruns main() from the top: the cached load, then the       *)
(* sidebar filters.  The views that follow are run by SpecCycles.          *)
(***************************************************************************)
Reference ==
    [airline |-> T("Acme"), seat |-> T("Economy"), traveller |-> T("Solo"),
     rating |-> Num(R(5)), route |-> <<"X", " ", "t", "o", " ", "Y">>,
     review |-> <<"o", "k">>, review_date |-> T("5th May 2023"),
     recommended |-> T("yes")]

CellValues ==
    [airline |-> {T("Acme"), T("Zed"), None},
     seat |-> {T("Economy"), T("Business"), None},
     traveller |-> {T("Solo"), T("Couple"), None},
     rating |-> {NaN, Num(R(1)), Num(R(5)), Num(R(10)), Num(R(11))},
     route |-> {Reference.route},
     review |-> {Reference.review},
     review_date |-> {T("5th May 2023"), T("n/a")},
     recommended |-> {Reference.recommended}]

\* the records of the input file: the reference record, and every record
\* that differs from it in one column
RawRows(has_date) ==
    { [r EXCEPT !.review_date = IF has_date THEN @ ELSE None] :
        r \in { x \in [airline : CellValues.airline, seat : CellValues.seat,
                       traveller : CellValues.traveller,
                       rating : CellValues.rating, route : CellValues.route,
                       review : CellValues.review,
                       review_date : CellValues.review_date,
                       recommended : CellValues.recommended] :
                  /\ Cardinality({ c \in DOMAIN Reference :
                                      x[c] /= Reference[c] }) <= 1
                  /\ (~has_date => x.review_date = Reference.review_date) } }

IsFile(f) ==
    \/ f = [exists |-> FALSE, has_date |-> FALSE, rows |-> <<>>]
    \/ \E h \in BOOLEAN : \E n \in 0..MaxRows : \E rows \in [1..n -> RawRows(h)] :
          f = [exists |-> TRUE, has_date |-> h, rows |-> rows]

Init ==
    /\ variant \in {"basic", "advanced"}
    /\ IsFile(csv)
    /\ cache = EmptyCache
    /\ df = NoTable
    /\ df_at_load = NoTable
    /\ filtered_df = NoTable
    /\ selected = NoSelection
    /\ shown = NoViews
    /\ parses = 0
    /\ cycle = 0
    /\ pc = "start"
    /\ RouteIdle
    /\ SegmentIdle
    /\ ThemeIdle
    /\ ScriptIdle

\* the load going on to the filters whatever it returned
MainLoadIgnoresFailure ==
    /\ pc = "start"
    /\ LET result == IF cache.set THEN cache.value
                     ELSE LoadAndProcessData(variant, csv)
       IN  /\ cache' = [set |-> TRUE, value |-> result]
           /\ df' = result
           /\ df_at_load' = result
           /\ parses' = IF cache.set THEN parses ELSE parses + 1
           /\ pc' = "loaded"
    /\ UNCHANGED <<variant, csv, filtered_df, selected, shown, cycle,
                   routeVars, segmentVars, themeVars, scriptVars>>

\* the load keeping only a table in the cache: a failure is tried again
MainLoadForgetsFailure ==
    /\ pc = "start"
    /\ LET hit == cache.set /\ ~cache.value.none
           result == IF hit THEN cache.value
                     ELSE LoadAndProcessData(variant, csv)
       IN  /\ cache' = [set |-> TRUE, value |-> result]
           /\ df' = result
           /\ df_at_load' = result
           /\ parses' = IF hit THEN parses ELSE parses + 1
           /\ pc' = IF result.none THEN "halted" ELSE "loaded"
    /\ UNCHANGED <<variant, csv, filtered_df, selected, shown, cycle,
                   routeVars, segmentVars, themeVars, scriptVars>>

\* the load without st.cache_data: the body runs in every cycle
MainLoadUncached ==
    /\ pc = "start"
    /\ LET result == LoadAndProcessData(variant, csv)
       IN  /\ cache' = [set |-> TRUE, value |-> result]
           /\ df' = result
           /\ df_at_load' = result
           /\ parses' = parses + 1
           /\ pc' = IF result.none THEN "halted" ELSE "loaded"
    /\ UNCHANGED <<variant, csv, filtered_df, selected, shown, cycle,
                   routeVars, segmentVars, themeVars, scriptVars>>

\* main(): "df, service_cols = load_and_process_data()" and the check of df
MainLoad ==
    /\ pc = "start"
    /\ LET result == IF cache.set THEN cache.value
                     ELSE LoadAndProcessData(variant, csv)
       IN  /\ cache' = [set |-> TRUE, value |-> result]
           /\ df' = result
           /\ df_at_load' = result
           /\ parses' = IF cache.set THEN parses ELSE parses + 1
           /\ pc' = IF result.none THEN "halted" ELSE "loaded"
    /\ UNCHANGED <<variant, csv, filtered_df, selected, shown, cycle,
                   routeVars, segmentVars, themeVars, scriptVars>>

\* the filters applied to the cached table itself
CreateInteractiveFiltersInPlace ==
    /\ pc = "loaded"
    /\ LET converted == ConvertReviewDate(variant, df)
       IN  \E sel \in Selections(variant, converted) :
              /\ ValidSelection(variant, sel)
              /\ df' = converted
              /\ selected' = sel
              /\ filtered_df' = ApplyFilters(variant, converted, sel)
              /\ cache' = [cache EXCEPT
                              !.value = ApplyFilters(variant, converted, sel)]
    /\ pc' = "filtered"
    /\ UNCHANGED <<variant, csv, df_at_load, shown, parses, cycle,
                   routeVars, segmentVars, themeVars, scriptVars>>

\* main(): "filtered_df = create_interactive_filters(df)"
CreateInteractiveFilters ==
    /\ pc = "loaded"
    /\ LET converted == ConvertReviewDate(variant, df)
       IN  \E sel \in Selections(variant, converted) :
              /\ ValidSelection(variant, sel)
              /\ df' = converted
              /\ selected' = sel
              /\ filtered_df' = ApplyFilters(variant, converted, sel)
    /\ pc' = "filtered"
    /\ UNCHANGED <<variant, csv, cache, df_at_load, shown, parses, cycle,
                   routeVars, segmentVars, themeVars, scriptVars>>

\* main(): the analytical views, in the script's order, up to the first
\* one that raises
RenderViews ==
    /\ pc = "filtered"
    /\ LET r == RunViews(ViewOrder(variant), variant, filtered_df, NoViews)
       IN  /\ filtered_df' = r.table
           /\ shown' = r.shown
           /\ pc' = IF r.shown.raised THEN "crashed" ELSE "rendered"
    /\ UNCHANGED <<variant, csv, cache, df, df_at_load, selected, parses,
                   cycle, routeVars, segmentVars, themeVars, scriptVars>>

\* a widget interaction: Streamlit stops the script if it still runs, and
\* runs it again from the top; the locals of the run are gone, the cache
\* entry stays
Rerun ==
    /\ pc \in {"filtered", "rendered", "crashed", "halted"}
    /\ pc' = "start"
    /\ df' = NoTable
    /\ df_at_load' = NoTable
    /\ filtered_df' = NoTable
    /\ selected' = NoSelection
    /\ shown' = NoViews
    /\ UNCHANGED <<variant, csv, cache, parses, cycle,
                   routeVars, segmentVars, themeVars, scriptVars>>

Next ==
    \/ MainLoad
    \/ CreateInteractiveFilters
    \/ Rerun

Spec == Init /\ [][Next]_vars

(***************************************************************************)
(* SpecCycles: the whole render cycle, load, filters and views, run up to  *)
(* MaxCycles times by one process.  The input file is two runs of equal    *)
(* records, the first long enough for an airline to reach the minimum      *)
(* sample of the competitive view.                                         *)
(***************************************************************************)
CycleKinds ==
    { [airline |-> T("Acme"), rating |-> Num(R(9)), route |-> Reference.route],
      [airline |-> T("Zed"), rating |-> Num(R(2)), route |-> Reference.route],
      [airline |-> T("Acme"), rating |-> NaN, route |-> Reference.route],
      [airline |-> T("Zed"), rating |-> Num(R(9)),
       route |-> <<"X", " ", "T", "o", " ", "Y", " ", "v", "i", "a", " ", "Z">>] }

CycleRow(has_date, k) ==
    [Reference EXCEPT !.airline = k.airline, !.rating = k.rating,
                      !.route = k.route,
                      !.review_date = IF has_date THEN @ ELSE None]

CycleRun(has_date, k, n) ==
    LET row == CycleRow(has_date, k)
    IN  [i \in 1..n |-> row]

InitCycles ==
    /\ variant \in {"basic", "advanced"}
    /\ \/ csv = [exists |-> FALSE, has_date |-> FALSE, rows |-> <<>>]
       \/ \E h \in BOOLEAN : \E k1, k2 \in CycleKinds :
            \E n1 \in {0, 1, MinReviews(variant, "airline")} : \E n2 \in {0, 1} :
               csv = [exists |-> TRUE, has_date |-> h,
                      rows |-> CycleRun(h, k1, n1) \o CycleRun(h, k2, n2)]
    /\ cache = EmptyCache
    /\ df = NoTable
    /\ df_at_load = NoTable
    /\ filtered_df = NoTable
    /\ selected = NoSelection
    /\ shown = NoViews
    /\ parses = 0
    /\ cycle = 1
    /\ pc = "start"
    /\ RouteIdle
    /\ SegmentIdle
    /\ ThemeIdle
    /\ ScriptIdle

\* a widget interaction, the cycles being counted
RerunCounted ==
    /\ cycle < MaxCycles
    /\ pc \in {"filtered", "rendered", "crashed", "halted"}
    /\ pc' = "start"
    /\ cycle' = cycle + 1
    /\ df' = NoTable
    /\ df_at_load' = NoTable
    /\ filtered_df' = NoTable
    /\ selected' = NoSelection
    /\ shown' = NoViews
    /\ UNCHANGED <<variant, csv, cache, parses,
                   routeVars, segmentVars, themeVars, scriptVars>>

NextCycles ==
    \/ MainLoad
    \/ CreateInteractiveFilters
    \/ RenderViews
    \/ RerunCounted

SpecCycles == InitCycles /\ [][NextCycles]_vars

(***************************************************************************)
(* SpecRoute: one call of parse_route on a route string.                   *)
(***************************************************************************)
InitRoute ==
    /\ IsRouteInput(route_str)
    /\ route_out = NotCalled
    /\ SegmentIdle
    /\ DashIdle
    /\ ThemeIdle
    /\ ScriptIdle

CallParseRoute ==
    /\ route_out.state = "pending"
    /\ route_out' = ParseRoute(route_str)
    /\ UNCHANGED <<route_str, segmentVars, themeVars, scriptVars, dashVars>>

NextRoute == CallParseRoute

SpecRoute == InitRoute /\ [][NextRoute]_vars

(***************************************************************************)
(* SpecSegment: one call of categorize_satisfaction on a rating.           *)
(***************************************************************************)
SegmentInputs == {NaN} \cup { Num(v) : v \in (0 - MaxHalves)..MaxHalves }

InitSegment ==
    /\ rating_in \in SegmentInputs
    /\ segment_out = "pending"
    /\ RouteIdle
    /\ DashIdle
    /\ ThemeIdle
    /\ ScriptIdle

CallCategorizeSatisfaction ==
    /\ segment_out = "pending"
    /\ segment_out' = CategorizeSatisfaction(rating_in)
    /\ UNCHANGED <<rating_in, routeVars, themeVars, scriptVars, dashVars>>

NextSegment == CallCategorizeSatisfaction

SpecSegment == InitSegment /\ [][NextSegment]_vars

(***************************************************************************)
(* SpecViews: the views of one render cycle, called one after another on a *)
(* working subset large enough to reach the minimum samples.  The subset   *)
(* is two runs of equal records.                                           *)
(***************************************************************************)
\* the views with a minimum sample
ThresholdedViews(v) ==
    IF v = "basic" THEN {"route", "airline"}
    ELSE {"airline", "route", "origin", "destination"}

\* a run is empty, or as long as a minimum sample, or one record short of it
RunLengths(v) ==
    {0} \cup { MinReviews(v, w) : w \in ThresholdedViews(v) }
        \cup { MinReviews(v, w) - 1 : w \in ThresholdedViews(v) }

ViewKinds ==
    [airline : {T("Acme"), T("Zed"), None},
     rating : {NaN, Num(R(2)), Num(R(9))},
     review : {Reference.review, None}]

\* the rating slider of the advanced dashboard lets no record without a
\* rating into the working subset
ViewKindsOf(v) ==
    IF v = "advanced" THEN { k \in ViewKinds : k.rating /= NaN }
    ELSE ViewKinds

\* a record of the subset: Acme flies X to Y and Zed flies Y to X, a record
\* without airline has no route either, and a passenger recommends the
\* airline when the rating is 8 or more
ViewRow(v, k) ==
    Derive(v, [Reference EXCEPT
                  !.airline = k.airline,
                  !.route = IF k.airline = T("Acme") THEN Reference.route
                            ELSE IF k.airline = None THEN None
                            ELSE <<"Y", " ", "t", "o", " ", "X">>,
                  !.rating = k.rating,
                  !.review = k.review,
                  !.recommended = IF GE(k.rating, R(8)) THEN T("yes")
                                  ELSE T("no")])

Run(v, k, n) ==
    LET row == ViewRow(v, k)
    IN  [i \in 1..n |-> row]

InitViews ==
    /\ variant \in {"basic", "advanced"}
    /\ \E k1, k2 \in ViewKindsOf(variant) : \E n1, n2 \in RunLengths(variant) :
          filtered_df = Table(FALSE, Run(variant, k1, n1) \o Run(variant, k2, n2))
    /\ csv = [exists |-> FALSE, has_date |-> FALSE, rows |-> <<>>]
    /\ cache = EmptyCache
    /\ df = NoTable
    /\ df_at_load = NoTable
    /\ selected = NoSelection
    /\ shown = NoViews
    /\ parses = 0
    /\ cycle = 0
    /\ pc = "filtered"
    /\ RouteIdle
    /\ SegmentIdle
    /\ ThemeIdle
    /\ ScriptIdle

\* whether the script stands before its call of the view
Ready(name) ==
    LET order == ViewOrder(variant)
    IN  \E i \in 1..Len(order) :
           /\ order[i] = name
           /\ pc = IF i = 1 THEN "filtered" ELSE order[i - 1]

\* main() calls the view: the view displays its tables, and returns or raises
CallView(name) ==
    /\ LET r == View(name, variant, filtered_df)
           order == ViewOrder(variant)
       IN  /\ filtered_df' = r.table
           /\ shown' = AfterView(shown, name, r)
           /\ pc' = IF r.raised THEN "crashed"
                    ELSE IF name = order[Len(order)] THEN "rendered"
                    ELSE name
    /\ UNCHANGED <<variant, csv, cache, df, df_at_load, selected, parses,
                   cycle, routeVars, segmentVars, themeVars, scriptVars>>

CallCreateSatisfactionOverview ==
    /\ Ready("create_satisfaction_overview")
    /\ CallView("create_satisfaction_overview")

CallAnalyzeTravelerSegments ==
    /\ Ready("analyze_traveler_segments")
    /\ CallView("analyze_traveler_segments")

CallAnalyzeGeographicPerformance ==
    /\ Ready("analyze_geographic_performance")
    /\ CallView("analyze_geographic_performance")

CallAnalyzeCompetitiveLandscape ==
    /\ Ready("analyze_competitive_landscape")
    /\ CallView("analyze_competitive_landscape")

CallAnalyzeReviewThemes ==
    /\ Ready("analyze_review_themes")
    /\ CallView("analyze_review_themes")

CallAnalyzeReviewThemesAdvanced ==
    /\ Ready("analyze_review_themes_advanced")
    /\ CallView("analyze_review_themes_advanced")

CallAnalyzeClassAndTravelerSegments ==
    /\ Ready("analyze_class_and_traveler_segments")
    /\ CallView("analyze_class_and_traveler_segments")

NextViews ==
    \/ CallCreateSatisfactionOverview
    \/ CallAnalyzeTravelerSegments
    \/ CallAnalyzeGeographicPerformance
    \/ CallAnalyzeCompetitiveLandscape
    \/ CallAnalyzeReviewThemes
    \/ CallAnalyzeReviewThemesAdvanced
    \/ CallAnalyzeClassAndTravelerSegments

SpecViews == InitViews /\ [][NextViews]_vars

(***************************************************************************)
(* SpecThemes: one call of extract_review_themes on up to MaxReviews       *)
(* records.  The ratings lie on both sides of the two thresholds; the      *)
(* review texts hold keywords of both theme tables, in upper and lower     *)
(* case, inside longer words, and one that overlaps itself.                *)
(***************************************************************************)
ThemeRatings ==
    {NaN, Num(R(3)), Num(R(3) + 1), Num(R(8) - 1), Num(R(8))}

ThemeTexts ==
    { None,
      <<"T", "V", " ", "t", "v">>,
      <<"s", "e", "a", "t", "v", "a", "l", "u", "e">>,
      <<"l", "a", "t", "e", " ", "o", "n">>,
      <<"t", "i", "m", "e", " ", "l", "o", "s", "t">>,
      <<"d", "a", "m", "a", "g", "e", "d", "a", "m", "a", "g", "e", "d">> }

ThemeRecords == [rating : ThemeRatings, review : ThemeTexts]

InitThemes ==
    /\ \E n \in 0..MaxReviews : theme_df \in [1..n -> ThemeRecords]
    /\ sentiment_in \in {"positive", "negative"}
    /\ theme_out = <<>>
    /\ RouteIdle
    /\ SegmentIdle
    /\ DashIdle
    /\ ScriptIdle

CallExtractReviewThemes ==
    /\ theme_out = <<>>
    /\ theme_out' = ExtractReviewThemes(theme_df, sentiment_in)
    /\ UNCHANGED <<theme_df, sentiment_in, routeVars, segmentVars, scriptVars, dashVars>>

NextThemes == CallExtractReviewThemes

SpecThemes == InitThemes /\ [][NextThemes]_vars

(***************************************************************************)
(* SpecOverview: the start of one render cycle, from the input file to the *)
(* overview and, in the basic dashboard, the traveler segments, on files   *)
(* of up to MaxRecords records.  A record is rated and recommended, rated  *)
(* low and not recommended, recommended without a rating, or rated without *)
(* a Recommended value.                                                    *)
(***************************************************************************)
OverviewKinds ==
    { [rating |-> Num(R(9)), recommended |-> T("yes")],
      [rating |-> Num(R(2)), recommended |-> T("no")],
      [rating |-> NaN, recommended |-> T("yes")],
      [rating |-> Num(R(9)), recommended |-> None] }

OverviewRow(k) ==
    [Reference EXCEPT !.rating = k.rating, !.recommended = k.recommended,
                      !.review_date = None]

InitOverview ==
    /\ variant \in {"basic", "advanced"}
    /\ \E n \in 0..MaxRecords : \E ks \in [1..n -> OverviewKinds] :
          csv = [exists |-> TRUE, has_date |-> FALSE,
                 rows |-> [i \in 1..n |-> OverviewRow(ks[i])]]
    /\ cache = EmptyCache
    /\ df = NoTable
    /\ df_at_load = NoTable
    /\ filtered_df = NoTable
    /\ selected = NoSelection
    /\ shown = NoViews
    /\ parses = 0
    /\ cycle = 0
    /\ pc = "start"
    /\ RouteIdle
    /\ SegmentIdle
    /\ ThemeIdle
    /\ ScriptIdle

NextOverview ==
    \/ MainLoad
    \/ CreateInteractiveFilters
    \/ CallCreateSatisfactionOverview
    \/ CallAnalyzeTravelerSegments

SpecOverview == InitOverview /\ [][NextOverview]_vars

(***************************************************************************)
(* SpecScripts: one run of the launcher or of the deployment helper.       *)
(***************************************************************************)
InitScripts ==
    /\ script \in {"launcher", "deploy"}
    /\ trace = <<>>
    /\ spc = "main"
    /\ RouteIdle
    /\ SegmentIdle
    /\ ThemeIdle
    /\ DashIdle

\* launcher main(): "if not check_file_exists('Airline Review.csv'): return"
CheckDataFile ==
    /\ script = "launcher" /\ spc = "main"
    /\ \E found \in BOOLEAN :
          /\ trace' = Append(trace, Exists("Airline Review.csv", found))
          /\ spc' = IF found THEN "check_dashboard" ELSE "done"
    /\ UNCHANGED <<script, routeVars, segmentVars, themeVars, dashVars>>

\* "if not check_file_exists('advanced_airline_dashboard.py'): return"
CheckDashboardFile ==
    /\ script = "launcher" /\ spc = "check_dashboard"
    /\ \E found \in BOOLEAN :
          /\ trace' = Append(trace,
                             Exists("advanced_airline_dashboard.py", found))
          /\ spc' = IF found THEN "ask_install" ELSE "done"
    /\ UNCHANGED <<script, routeVars, segmentVars, themeVars, dashVars>>

\* "install_deps = input(...)" and the branch on it
AskInstall ==
    /\ script = "launcher" /\ spc = "ask_install"
    /\ \E text \in Answers :
          /\ trace' = Append(trace, Asked("Install/update required packages?",
                                          text))
          /\ spc' = IF SaysYes(text) THEN "install" ELSE "ask_launch"
    /\ UNCHANGED <<script, routeVars, segmentVars, themeVars, dashVars>>

\* "if not install_requirements(): print('Continuing without ...')"
CallInstallRequirements ==
    /\ script = "launcher" /\ spc = "install"
    /\ \E o1, o2 \in Outcomes :
          LET r == InstallRequirements(o1, o2)
          IN  /\ trace' = trace \o r.calls \o
                    (IF r.raised THEN <<>>
                     ELSE <<Ev("install_requirements", Bool(r.result), <<>>)>>)
              /\ spc' = IF r.raised THEN "aborted" ELSE "ask_launch"
    /\ UNCHANGED <<script, routeVars, segmentVars, themeVars, dashVars>>

\* the count of reviews is printed, then "launch_input = input(...)"
AskLaunch ==
    /\ script = "launcher" /\ spc = "ask_launch"
    /\ \E text \in Answers :
          /\ trace' = Append(trace, Asked("Launch dashboard?", text))
          /\ spc' = IF SaysYes(text) THEN "launch" ELSE "done"
    /\ UNCHANGED <<script, routeVars, segmentVars, themeVars, dashVars>>

\* launch_dashboard(): streamlit run, every exception caught
LaunchDashboard ==
    /\ script = "launcher" /\ spc = "launch"
    /\ \E o \in LaunchOutcomes :
          trace' = Append(trace, Ev("streamlit run", o, <<>>))
    /\ spc' = "done"
    /\ UNCHANGED <<script, routeVars, segmentVars, themeVars, dashVars>>

\* deployment helper main(): "if not check_required_files(): return"
CheckRequiredFiles ==
    /\ script = "deploy" /\ spc = "main"
    /\ \E found \in [1..Len(RequiredFiles) -> BOOLEAN] :
          /\ trace' = trace \o [i \in 1..Len(RequiredFiles) |->
                                   Exists(RequiredFiles[i], found[i])]
          /\ spc' = IF \A i \in 1..Len(RequiredFiles) : found[i]
                    THEN "check_git" ELSE "done"
    /\ UNCHANGED <<script, routeVars, segmentVars, themeVars, dashVars>>

\* "if not check_git_installed(): return"
CheckGitInstalled ==
    /\ script = "deploy" /\ spc = "check_git"
    /\ \E o \in Outcomes :
          /\ trace' = Append(trace, Ev("git --version", o, <<>>))
          /\ spc' = IF o = "ok" THEN "check_repo" ELSE "done"
    /\ UNCHANGED <<script, routeVars, segmentVars, themeVars, dashVars>>

\* "if not check_git_repo():"
CheckGitRepo ==
    /\ script = "deploy" /\ spc = "check_repo"
    /\ \E found \in BOOLEAN :
          /\ trace' = Append(trace, Exists(".git", found))
          /\ spc' = IF found THEN "gitignore" ELSE "ask_init"
    /\ UNCHANGED <<script, routeVars, segmentVars, themeVars, dashVars>>

\* "init_repo = input(...)": the helper returns unless the answer is yes
AskInit ==
    /\ script = "deploy" /\ spc = "ask_init"
    /\ \E text \in Answers :
          /\ trace' = Append(trace, Asked("Initialize Git repository?", text))
          /\ spc' = IF SaysYes(text) THEN "init" ELSE "done"
    /\ UNCHANGED <<script, routeVars, segmentVars, themeVars, dashVars>>

\* "if not initialize_git_repo(): return"
CallInitializeGitRepo ==
    /\ script = "deploy" /\ spc = "init"
    /\ \E o1, o2 \in GitOutcomes :
          LET r == InitializeGitRepo(o1, o2)
          IN  /\ trace' = trace \o r.calls \o
                    <<Ev("initialize_git_repo", Bool(r.result), <<>>)>>
              /\ spc' = IF r.result THEN "gitignore" ELSE "done"
    /\ UNCHANGED <<script, routeVars, segmentVars, themeVars, dashVars>>

\* create_gitignore(): the file is written unless it is there
CreateGitignore ==
    /\ script = "deploy" /\ spc = "gitignore"
    /\ \E found \in BOOLEAN :
          trace' = trace \o <<Exists(".gitignore", found)>> \o
                      (IF found THEN <<>>
                       ELSE <<Ev("write", "ok", <<".gitignore">>)>>)
    /\ spc' = "ask_commit"
    /\ UNCHANGED <<script, routeVars, segmentVars, themeVars, dashVars>>

\* "commit_choice = input(...)" and the branch on it
AskCommit ==
    /\ script = "deploy" /\ spc = "ask_commit"
    /\ \E text \in Answers :
          /\ trace' = Append(trace, Asked("Commit current files to Git?", text))
          /\ spc' = IF SaysYes(text) THEN "commit" ELSE "instructions"
    /\ UNCHANGED <<script, routeVars, segmentVars, themeVars, dashVars>>

\* "if not commit_files(): print('Continuing with deployment ...')"
CallCommitFiles ==
    /\ script = "deploy" /\ spc = "commit"
    /\ \E o1, o2 \in GitOutcomes :
          LET r == CommitFiles(o1, o2)
          IN  trace' = trace \o r.calls \o
                 <<Ev("commit_files", Bool(r.result), <<>>)>>
    /\ spc' = "instructions"
    /\ UNCHANGED <<script, routeVars, segmentVars, themeVars, dashVars>>

\* show_deployment_instructions() and the closing lines
ShowDeploymentInstructions ==
    /\ script = "deploy" /\ spc = "instructions"
    /\ trace' = Append(trace, Ev("print", "ok", <<"DEPLOYMENT INSTRUCTIONS">>))
    /\ spc' = "done"
    /\ UNCHANGED <<script, routeVars, segmentVars, themeVars, dashVars>>

NextScripts ==
    \/ CheckDataFile
    \/ CheckDashboardFile
    \/ AskInstall
    \/ CallInstallRequirements
    \/ AskLaunch
    \/ LaunchDashboard
    \/ CheckRequiredFiles
    \/ CheckGitInstalled
    \/ CheckGitRepo
    \/ AskInit
    \/ CallInitializeGitRepo
    \/ CreateGitignore
    \/ AskCommit
    \/ CallCommitFiles
    \/ ShowDeploymentInstructions

SpecScripts == InitScripts /\ [][NextScripts]_vars

(***************************************************************************)
(* SpecReload: the render cycles of SpecCycles in a working directory      *)
(* where the input file, missing at first, can be put in place while the   *)
(* process runs.                                                           *)
(***************************************************************************)
\* somebody copies 'Airline Review.csv' into the working directory
FileAppears ==
    /\ ~csv.exists
    /\ \E k \in CycleKinds :
          csv' = [exists |-> TRUE, has_date |-> FALSE,
                  rows |-> CycleRun(FALSE, k, 1)]
    /\ UNCHANGED <<variant, cache, df, df_at_load, filtered_df, selected,
                   shown, parses, cycle, pc, routeVars, segmentVars,
                   themeVars, scriptVars>>

NextReload ==
    \/ MainLoad
    \/ CreateInteractiveFilters
    \/ RenderViews
    \/ RerunCounted
    \/ FileAppears

SpecReload == InitCycles /\ [][NextReload]_vars

(***************************************************************************)
(* Claims about parse_route, checked under SpecRoute.                      *)
(***************************************************************************)
RouteCalled == route_out.state /= "pending"

\* the route string as parse_route sees it after str(route_str).strip()
Trimmed == Strip(route_str)

BeforeFirst(s, sep) == SubSeq(s, 1, Find(s, sep) - 1)

AfterFirst(s, sep) == SubSeq(s, Find(s, sep) + Len(sep), Len(s))

\* every occurrence of a separator, in whatever case, is spelled in lower case
LowerCaseSeparators(s) ==
    \A i \in 1..Len(s) :
        /\ MatchAt(Lower(s), SepVia, i) => MatchAt(s, SepVia, i)
        /\ MatchAt(Lower(s), SepTo, i) => MatchAt(s, SepTo, i)

\* s with every occurrence of a separator, in whatever case, spelled in lower case
LowerSeparators(s) ==
    [i \in 1..Len(s) |->
        IF \E j \in 1..i :
              \/ (MatchAt(Lower(s), SepVia, j) /\ i < j + Len(SepVia))
              \/ (MatchAt(Lower(s), SepTo, j) /\ i < j + Len(SepTo))
        THEN LowerChar(s[i])
        ELSE s[i]]

\* C4: parse_route is total: whatever the input (null, empty, separators in
\* any case), the call returns a triple and never raises.
C4_ParseRouteNeverRaises == route_out.state /= "raised"

\* C5 as stated: with lower-case separators, null gives (null, null, null);
\* " via " with " to " before it gives (origin, destination, via); otherwise
\* any string containing " to " gives (before, after, null); otherwise the
\* trimmed string alone.
C5_PrecedenceAsStated ==
    (RouteCalled /\ (IsNa(route_str) \/ LowerCaseSeparators(Trimmed))) =>
        route_out =
            IF IsNa(route_str) THEN Returned(None, None, None)
            ELSE IF /\ Contains(Trimmed, SepVia)
                    /\ Contains(BeforeFirst(Trimmed, SepVia), SepTo)
            THEN LET main == BeforeFirst(Trimmed, SepVia)
                 IN  Returned(Strip(BeforeFirst(main, SepTo)),
                              Strip(AfterFirst(main, SepTo)),
                              Strip(AfterFirst(Trimmed, SepVia)))
            ELSE IF Contains(Trimmed, SepTo)
            THEN Returned(Strip(BeforeFirst(Trimmed, SepTo)),
                          Strip(AfterFirst(Trimmed, SepTo)), None)
            ELSE Returned(Trimmed, None, None)

\* C5 amended: as C5, except that the " to " rule applies only to a string
\* that contains no " via "; a string with " via " but no " to " before it
\* falls to the last rule and gives (trimmed string, null, null).
C5_Precedence ==
    (RouteCalled /\ (IsNa(route_str) \/ LowerCaseSeparators(Trimmed))) =>
        route_out =
            IF IsNa(route_str) THEN Returned(None, None, None)
            ELSE IF /\ Contains(Trimmed, SepVia)
                    /\ Contains(BeforeFirst(Trimmed, SepVia), SepTo)
            THEN LET main == BeforeFirst(Trimmed, SepVia)
                 IN  Returned(Strip(BeforeFirst(main, SepTo)),
                              Strip(AfterFirst(main, SepTo)),
                              Strip(AfterFirst(Trimmed, SepVia)))
            ELSE IF ~Contains(Trimmed, SepVia) /\ Contains(Trimmed, SepTo)
            THEN Returned(Strip(BeforeFirst(Trimmed, SepTo)),
                          Strip(AfterFirst(Trimmed, SepTo)), None)
            ELSE Returned(Trimmed, None, None)

\* a parsed "X to Y via X"-like route: three different rules have been decided
C5_Witness ==
    /\ RouteCalled
    /\ ~IsNa(route_str)
    /\ LowerCaseSeparators(Trimmed)
    /\ Contains(Trimmed, SepVia)
    /\ Contains(BeforeFirst(Trimmed, SepVia), SepTo)
    /\ route_out.origin /= route_out.destination
    /\ route_out.origin /= <<>>
    /\ route_out.destination /= <<>>
    /\ route_out.via /= <<>>

\* C6: a separator in mixed or upper case splits the route like its
\* lower-case spelling: the outcome is that of the route with its separators
\* written in lower case.
C6_SplitIgnoresCase ==
    (RouteCalled /\ ~IsNa(route_str)) =>
        route_out = ParseRoute(LowerSeparators(Trimmed))

\* C7: a route with " via " whose part before the first " via " has no
\* " to " (in any letter case, as parse_route looks for it) gives
\* (the whole trimmed route, null, null), also when " to " follows the via.
C7_Applies ==
    /\ ~IsNa(route_str)
    /\ Contains(Trimmed, SepVia)
    /\ ~Contains(Lower(BeforeFirst(Trimmed, SepVia)), SepTo)

SegmentCalled == segment_out /= "pending"

\* C9: every numeric rating gets exactly one of the four labels, by the
\* half-open intervals r >= 8, 6 <= r < 8, 3 <= r < 6, r < 3, without
\* clamping: 8, 6 and 3 give Happy, Neutral and Disappointed, 0 gives Very
\* Disappointed and 11 gives Happy.
C9_SegmentsPartitionRatings ==
    (SegmentCalled /\ ~rating_in.nan) =>
        LET r == rating_in.v
        IN  /\ segment_out \in SegmentLabels
            /\ (segment_out = Happy) <=> (r >= R(8))
            /\ (segment_out = Neutral) <=> (R(6) <= r /\ r < R(8))
            /\ (segment_out = Disappointed) <=> (R(3) <= r /\ r < R(6))
            /\ (segment_out = VeryDisappointed) <=> (r < R(3))
            /\ (r \in {R(8), R(11)}) => segment_out = Happy
            /\ (r = R(6)) => segment_out = Neutral
            /\ (r = R(3)) => segment_out = Disappointed
            /\ (r = R(0)) => segment_out = VeryDisappointed

\* the boundary rating 6.0 has been labelled
C9_Witness ==
    /\ SegmentCalled
    /\ rating_in = Num(R(6))
    /\ segment_out = Neutral

\* C10: a missing rating gets a missing segment: none of the four labels is
\* assigned to it.
C10_MissingRatingGetsNoLabel ==
    (SegmentCalled /\ rating_in.nan) => segment_out \notin SegmentLabels


(***************************************************************************)
(* Claims about the filter stage and the base table, checked under Spec.   *)
(***************************************************************************)
Filtered == pc \in {"filtered", "rendered"}

\* the default position of every widget of the sidebar
DefaultSelection ==
    [airline |-> All, seat |-> All, traveller |-> All,
     lo |-> IF variant = "advanced" THEN Num(R(1)) ELSE NaN,
     hi |-> IF variant = "advanced" THEN Num(R(10)) ELSE NaN]

\* the record satisfies every active predicate of the selection
Satisfies(row) ==
    /\ selected.airline = All \/ row.airline = selected.airline
    /\ selected.seat = All \/ row.seat = selected.seat
    /\ selected.traveller = All \/ row.traveller = selected.traveller
    /\ variant = "advanced" =>
          /\ ~row.rating.nan
          /\ selected.lo.v <= row.rating.v
          /\ row.rating.v <= selected.hi.v

\* C1: create_interactive_filters returns exactly the records of the base
\* table, in their order, that satisfy every non-"All" equality predicate
\* on airline, seat class and traveler type together and, in the advanced
\* dashboard, whose rating lies in [lo, hi]; "All" applies no predicate.
C1_FilterIsConjunction ==
    (pc = "filtered") =>
        /\ ~filtered_df.none
        /\ filtered_df.rows = SelectSeq(df.rows, Satisfies)

\* two equality predicates are active, one record passes both and another
\* record fails one of them
C1_Witness ==
    /\ pc = "filtered"
    /\ selected.airline /= All
    /\ selected.seat /= All
    /\ Len(filtered_df.rows) = 1
    /\ Len(df.rows) = 2
    /\ \E i \in 1..Len(df.rows) :
          /\ df.rows[i].airline = selected.airline
          /\ df.rows[i].seat /= selected.seat

\* C2: with every filter at its default ("All", rating range 1.0..10.0) the
\* advanced dashboard's create_interactive_filters returns the full base
\* table, also when records have a missing or out-of-range rating.
C2_DefaultsReturnFullDataset ==
    (pc = "filtered" /\ variant = "advanced" /\ selected = DefaultSelection) =>
        filtered_df.rows = df.rows

\* C3: after any sequence of filter operations and view renders, in either
\* dashboard, the base table is as load_and_process_data returned it: same
\* rows, same row count, same column values.
C3_BaseTableUnchanged ==
    Filtered => df = df_at_load

(***************************************************************************)
(* Claims about the analytical views, checked under SpecViews.             *)
(***************************************************************************)
\* the tables of the thresholded views, each with the column it groups by
ThresholdedTables(v) ==
    IF v = "basic"
    THEN { [name |-> "top_routes", col |-> "route", view |-> "route"],
           [name |-> "bottom_routes", col |-> "route", view |-> "route"],
           [name |-> "airline_metrics", col |-> "airline", view |-> "airline"] }
    ELSE { [name |-> "top_routes", col |-> "route", view |-> "route"],
           [name |-> "bottom_routes", col |-> "route", view |-> "route"],
           [name |-> "airline_metrics", col |-> "airline", view |-> "airline"],
           [name |-> "origin_performance", col |-> "origin", view |-> "origin"],
           [name |-> "dest_performance", col |-> "destination",
            view |-> "destination"] }

\* the minimum samples as the views are documented: routes 10 and airlines 20
\* in the basic dashboard; airlines 10, routes 5, origins 10 and
\* destinations 10 in the advanced one
StatedMinimum(v, view) ==
    IF v = "basic"
    THEN (IF view = "route" THEN 10 ELSE 20)
    ELSE (IF view = "route" THEN 5 ELSE 10)

\* the records of the subset whose column col holds key
RowsOf(col, key) ==
    Cardinality({ i \in 1..Len(filtered_df.rows) :
                    filtered_df.rows[i][col] = key })

IsShown(name) == name \in DOMAIN shown.tables

Range(seq) == { seq[i] : i \in 1..Len(seq) }

\* C11: in every thresholded view, a group with fewer records in the
\* filtered subset than the view's minimum sample never appears in the
\* table the view displays.
C11_BelowMinimumNeverShown ==
    \A t \in ThresholdedTables(variant) :
        IsShown(t.name) =>
            \A j \in 1..Len(shown.tables[t.name]) :
                RowsOf(t.col, shown.tables[t.name][j].key)
                    >= StatedMinimum(variant, t.view)

\* a view displayed one group and dropped another, which was too small
C11_Witness ==
    \E t \in ThresholdedTables(variant) :
        /\ IsShown(t.name)
        /\ shown.tables[t.name] /= <<>>
        /\ \E i \in 1..Len(filtered_df.rows) :
              LET key == filtered_df.rows[i][t.col]
              IN  /\ RowsOf(t.col, key) < StatedMinimum(variant, t.view)
                  /\ \A j \in 1..Len(shown.tables[t.name]) :
                        shown.tables[t.name][j].key /= key

\* the average rating of the records of the subset whose column col holds
\* key, as the table named name states it: to two decimals in the route and
\* airline tables
AverageOf(name, col, key) ==
    LET rows == Mask(filtered_df.rows,
                     [i \in 1..Len(filtered_df.rows) |->
                         filtered_df.rows[i][col] = key])
    IN  IF name \in {"origin_performance", "dest_performance"}
        THEN RatingMean(rows)
        ELSE Round2(RatingMean(rows))

\* the groups of the subset that reach the view's minimum sample
Survivors(t) ==
    { filtered_df.rows[i][t.col] : i \in 1..Len(filtered_df.rows) }
        \cap { k \in Range(Collation) :
                 Cardinality({ i \in 1..Len(filtered_df.rows) :
                                 /\ filtered_df.rows[i][t.col] = k
                                 /\ ~filtered_df.rows[i].rating.nan })
                     >= StatedMinimum(variant, t.view) }

\* C12: the table of every thresholded view is in non-increasing order of
\* average rating, it holds only groups that reach the minimum sample, and
\* its first row is a group with the highest average among those groups.
C12_SortedAfterFiltering ==
    \A t \in ThresholdedTables(variant) :
        IsShown(t.name) =>
            LET tbl == shown.tables[t.name]
            IN  /\ \A j \in 1..Len(tbl) : tbl[j].key \in Survivors(t)
                /\ \A j \in 1..(Len(tbl) - 1) :
                      ~Greater(tbl[j + 1].Avg_Rating, tbl[j].Avg_Rating)
                /\ Survivors(t) /= {} => tbl /= <<>>
                /\ t.name /= "bottom_routes" =>
                      \A k \in Survivors(t) :
                          ~Greater(AverageOf(t.name, t.col, k),
                                   tbl[1].Avg_Rating)

\* a view displayed two groups of different averages
C12_Witness ==
    \E t \in ThresholdedTables(variant) :
        /\ IsShown(t.name)
        /\ Len(shown.tables[t.name]) >= 2
        /\ Greater(shown.tables[t.name][1].Avg_Rating,
                   shown.tables[t.name][2].Avg_Rating)
        /\ Cardinality(Survivors(t)) >= 2

ChallengingRoutes == shown.tables["bottom_routes"]

\* C13 as stated: the "Most Challenging Routes" view of the advanced
\* dashboard hands the chart a table in ascending order of average rating,
\* lowest first.
C13_ChallengingRoutesAscending ==
    (variant = "advanced" /\ IsShown("bottom_routes")) =>
        \A j \in 1..(Len(ChallengingRoutes) - 1) :
            ~Greater(ChallengingRoutes[j].Avg_Rating,
                     ChallengingRoutes[j + 1].Avg_Rating)

\* C13: the "Most Challenging Routes" view of the advanced dashboard hands
\* the chart the last rows of the route table in the descending order of
\* the other views: no row has a higher average than the row before it, and
\* the last row is a route with the lowest average of the routes that reach
\* the minimum sample.
C13_ChallengingRoutesDescending ==
    (variant = "advanced" /\ IsShown("bottom_routes")) =>
        /\ \A j \in 1..(Len(ChallengingRoutes) - 1) :
              ~Greater(ChallengingRoutes[j + 1].Avg_Rating,
                       ChallengingRoutes[j].Avg_Rating)
        /\ \A k \in Survivors([col |-> "route", view |-> "route"]) :
              /\ ChallengingRoutes /= <<>>
              /\ ~Greater(ChallengingRoutes[Len(ChallengingRoutes)].Avg_Rating,
                          AverageOf("bottom_routes", "route", k))

\* the view displayed two routes of different averages
C13_Witness ==
    /\ variant = "advanced"
    /\ IsShown("bottom_routes")
    /\ Len(ChallengingRoutes) = 2
    /\ ChallengingRoutes[1].Avg_Rating /= ChallengingRoutes[2].Avg_Rating

\* C14 as stated: whatever the filtered subset, no view raises, and every
\* view of the cycle runs.
C14_EveryViewCompletes ==
    /\ ~shown.raised
    /\ pc /= "crashed"

\* C15 as stated: a record contributes to an aggregate only through values
\* it has: a record without a rating is counted in no satisfaction segment,
\* and a record without a review text enters no segment's review-length
\* mean or count.
C15_MissingValuesSkipped ==
    LET rows == filtered_df.rows
    IN  /\ IsShown("segment_dist") =>
              \A s \in DOMAIN shown.tables["segment_dist"] :
                  shown.tables["segment_dist"][s]
                      = Cardinality({ i \in 1..Len(rows) :
                                        /\ ~rows[i].rating.nan
                                        /\ rows[i].segment = s })
        /\ IsShown("review_stats") =>
              \A s \in DOMAIN shown.tables["review_stats"] :
                  shown.tables["review_stats"][s].Count
                      = Cardinality({ i \in 1..Len(rows) :
                                        /\ ~rows[i].rating.nan
                                        /\ ~IsNa(rows[i].review)
                                        /\ rows[i].segment = s })

(***************************************************************************)
(* Claims about the render cycle, checked under SpecCycles.                *)
(***************************************************************************)
\* the input file is missing, or deriving the fields of a record raises
LoadFails ==
    \/ ~csv.exists
    \/ \E i \in 1..Len(csv.rows) :
          ParseRoute(csv.rows[i].route).state = "raised"

\* the script is past the check of the loaded table
PastLoad == pc \in {"loaded", "filtered", "rendered", "crashed"}

\* C16: when the load fails, load_and_process_data returns no dataset and
\* main stops there: no filter stage runs and no view displays anything in
\* that cycle; a cycle gets past the load only when the load succeeded.
C16_LoadFailureHalts ==
    /\ LoadFails =>
          /\ pc \in {"start", "halted"}
          /\ df.none
          /\ filtered_df = NoTable
          /\ selected = NoSelection
          /\ shown = NoViews
    /\ (PastLoad \/ shown /= NoViews) => (~LoadFails /\ ~df.none)
    /\ pc = "halted" => LoadFails

\* a cycle halted because a derivation step raised on a record of the file
C16_Witness ==
    /\ pc = "halted"
    /\ csv.exists
    /\ shown = NoViews

\* C17: the file is parsed, and the derived fields are computed, at most
\* once per process: whatever the number of cycles, the body of
\* load_and_process_data has run once when the cache entry is set, and a
\* cycle past its load works on the cached table.
C17_LoadedOncePerProcess ==
    /\ parses <= 1
    /\ cache.set <=> parses = 1
    /\ PastLoad => (cache.set /\ df_at_load = cache.value)

\* a later cycle has loaded its table, from the cache
C17_Witness ==
    /\ cycle >= 2
    /\ pc = "loaded"
    /\ parses = 1

\* the working subset, and the result of the views, that the table the
\* process loaded first and the selections sel determine
SubsetOf(sel) ==
    ApplyFilters(variant,
                 ConvertReviewDate(variant, LoadAndProcessData(variant, csv)),
                 sel)

RenderingOf(sel) ==
    RunViews(ViewOrder(variant), variant, SubsetOf(sel), NoViews)

\* C18: no cycle changes the cached base table, which stays the table the
\* first load produced, and what a cycle computes depends only on that
\* table and on the cycle's selections: the working subset behind the
\* filters, then the tables the views display (the theme rankings among
\* them, in their order) and whether a view raised.  Two cycles with the
\* same selections therefore show the same.
C18_CyclesAreDeterministic ==
    /\ cache.set => cache.value = LoadAndProcessData(variant, csv)
    /\ pc = "filtered" => filtered_df = SubsetOf(selected)
    /\ pc \in {"rendered", "crashed"} =>
          LET r == RenderingOf(selected)
          IN  /\ shown = r.shown
              /\ filtered_df = r.table

\* a later cycle ran all its views, the airline table not empty
C18_Witness ==
    /\ cycle >= 2
    /\ pc = "rendered"
    /\ shown.tables["airline_metrics"] /= <<>>
    /\ selected.airline /= All

(***************************************************************************)
(* Claims about extract_review_themes, checked under SpecThemes.           *)
(***************************************************************************)
\* the theme table the call selected, and the place of a theme in it
SelectedThemes ==
    IF sentiment_in = "positive" THEN positive_themes ELSE negative_themes

Declared(name) ==
    CHOOSE t \in 1..Len(SelectedThemes) : SelectedThemes[t].theme = name

\* C19: the list returned holds one (theme, count) pair for each of the 7
\* themes of the selected table, the counts never increase along it, and of
\* two themes with the same count the one declared first comes first.
C19_RankedByCountThenDeclaration ==
    theme_out /= <<>> =>
       /\ Len(theme_out) = 7
       /\ Len(SelectedThemes) = 7
       /\ \A t \in 1..7 :
             Cardinality({ i \in 1..Len(theme_out) :
                             theme_out[i].theme = SelectedThemes[t].theme }) = 1
       /\ \A i, j \in 1..Len(theme_out) :
             i < j =>
                /\ theme_out[i].count >= theme_out[j].count
                /\ theme_out[i].count = theme_out[j].count =>
                      Declared(theme_out[i].theme) < Declared(theme_out[j].theme)

\* a ranking that is not the declaration order, with a tie among themes
\* that were mentioned
C19_Witness ==
    /\ theme_out /= <<>>
    /\ theme_out[1].theme /= SelectedThemes[1].theme
    /\ theme_out[1].count > theme_out[2].count
    /\ theme_out[2].count = theme_out[3].count
    /\ theme_out[3].count > 0

\* the corpus the claim describes: the reviews of the records whose rating
\* is there and on the side of the threshold the flag names, a missing
\* review as the empty text, joined by single blanks, in lower case
InSentiment(rec) ==
    /\ rec.rating /= NaN
    /\ IF sentiment_in = "positive" THEN rec.rating.v >= 2 * 8
       ELSE rec.rating.v <= 2 * 3

RECURSIVE CorpusUpTo(_)
CorpusUpTo(n) ==
    IF n = 0 THEN [started |-> FALSE, text |-> <<>>]
    ELSE LET before == CorpusUpTo(n - 1)
             rec == theme_df[n]
             text == IF rec.review = None THEN <<>> ELSE rec.review
         IN  IF ~InSentiment(rec) THEN before
             ELSE IF ~before.started THEN [started |-> TRUE, text |-> text]
             ELSE [started |-> TRUE, text |-> before.text \o <<" ">> \o text]

Corpus == Lower(CorpusUpTo(Len(theme_df)).text)

\* the number of non-overlapping occurrences of phrase in text a scan from
\* the left counts: the most places one can pick among the places where
\* the phrase stands so that no two picked occurrences share a character
Places(text, phrase) ==
    { i \in 1..(Len(text) - Len(phrase) + 1) :
        \A k \in 1..Len(phrase) : text[i + k - 1] = phrase[k] }

Disjoint(picked, phrase) ==
    \A a, b \in picked : a < b => b - a >= Len(phrase)

NonOverlapping(text, phrase) ==
    LET sizes == { Cardinality(picked) :
                     picked \in { q \in SUBSET Places(text, phrase) :
                                    Disjoint(q, phrase) } }
    IN  CHOOSE m \in sizes : \A k \in sizes : k <= m

RECURSIVE PhraseSum(_, _, _)
PhraseSum(text, phrases, n) ==
    IF n = 0 THEN 0
    ELSE PhraseSum(text, phrases, n - 1) + NonOverlapping(text, phrases[n])

\* C20: the count of every theme is the sum, over the phrases of the theme,
\* of the non-overlapping places where the phrase stands in the lower-case
\* corpus of the records with rating >= 8 (positive) or <= 3 (negative),
\* a missing review counting as empty text; a phrase inside a longer word
\* counts.
C20_CountsOverSentimentCorpus ==
    theme_out /= <<>> =>
       \A i \in 1..Len(theme_out) :
          LET keywords == SelectedThemes[Declared(theme_out[i].theme)].keywords
          IN  theme_out[i].count = PhraseSum(Corpus, keywords, Len(keywords))

\* a negative ranking over two records: one at the threshold whose review
\* holds a keyword that overlaps itself, counted once, and one just above
\* the threshold whose keywords are not counted
C20_Witness ==
    /\ theme_out /= <<>>
    /\ sentiment_in = "negative"
    /\ Len(theme_df) = 2
    /\ theme_df[1].rating = Num(R(3))
    /\ theme_df[1].review =
          <<"d", "a", "m", "a", "g", "e", "d", "a", "m", "a", "g", "e", "d">>
    /\ theme_df[2].rating = Num(R(3) + 1)
    /\ theme_df[2].review = <<"t", "i", "m", "e", " ", "l", "o", "s", "t">>
    /\ theme_out[1] = [theme |-> "Baggage Issues", count |-> 1]

(***************************************************************************)
(* Claims about the overview and the rates, checked under SpecOverview.    *)
(***************************************************************************)
\* the input file of the end-to-end scenario
ScenarioFile ==
    << OverviewRow([rating |-> Num(R(9)), recommended |-> T("yes")]),
       OverviewRow([rating |-> Num(R(2)), recommended |-> T("no")]),
       OverviewRow([rating |-> Num(R(9)), recommended |-> T("yes")]) >>

\* the overview has run on the whole file: every widget at its default
OverviewOfWholeFile ==
    /\ IsShown("happy_rate")
    /\ selected = DefaultSelection

\* C21: for the records (9, yes), (2, no), (9, yes) the happy rate and the
\* recommendation rate are both 2 of 3, each displayed as 66.7%, and the
\* satisfaction segments are Happy, Very Disappointed, Happy in the order
\* of the records.
C21_EndToEndScenario ==
    (csv.rows = ScenarioFile /\ OverviewOfWholeFile) =>
       /\ shown.tables["happy_rate"] = Frac(100 * 2, 3)
       /\ shown.tables["recommendation_rate"] = Frac(100 * 2, 3)
       /\ shown.tables["happy_metric"] = [nan |-> FALSE, whole |-> 66, tenth |-> 7]
       /\ shown.tables["recommendation_metric"]
             = [nan |-> FALSE, whole |-> 66, tenth |-> 7]
       /\ [i \in 1..Len(filtered_df.rows) |-> filtered_df.rows[i].segment]
             = <<Happy, VeryDisappointed, Happy>>
       /\ shown.tables["segment_dist"]
             = (Happy :> 2) @@ (VeryDisappointed :> 1)

\* the overview of the scenario file has been displayed
C21_Witness ==
    /\ csv.rows = ScenarioFile
    /\ OverviewOfWholeFile
    /\ pc = "create_satisfaction_overview"

(***************************************************************************)
(* Further claims about the render cycle, checked under SpecCycles.        *)
(***************************************************************************)
DerivedFields == {"origin", "destination", "via", "segment", "review_length"}

\* C22 as stated: every derived field is computed at load time, so the
\* records of the cached table carry all of them, and no later step of a
\* cycle computes or reassigns one: the derived fields of a record of the
\* working subset are those of a record of the cached table.
C22_DerivedFieldsOnceAtLoad ==
    (cache.set /\ ~cache.value.none) =>
       /\ \A j \in 1..Len(cache.value.rows) :
             DerivedFields \subseteq DOMAIN cache.value.rows[j]
       /\ ~filtered_df.none =>
             \A i \in 1..Len(filtered_df.rows) :
                \E j \in 1..Len(cache.value.rows) :
                   \A c \in DerivedFields \cap DOMAIN filtered_df.rows[i] :
                      /\ c \in DOMAIN cache.value.rows[j]
                      /\ filtered_df.rows[i][c] = cache.value.rows[j][c]

(***************************************************************************)
(* Claims about the launcher and the deployment helper, checked under      *)
(* SpecScripts.                                                            *)
(***************************************************************************)
\* the places of the run where the script did op
Ops(op) == { i \in 1..Len(trace) : trace[i].op = op }

\* the script tested the file and found it, or did not find it
Found(filename) == \E i \in 1..Len(trace) : trace[i] = Exists(filename, TRUE)

NotFound(filename) ==
    \E i \in 1..Len(trace) : trace[i] = Exists(filename, FALSE)

\* the line reads y or yes, whatever its case and the blanks around it
ReadsYes(text) ==
    Lower(SelectSeq(text, LAMBDA c : c /= " "))
        \in { <<"y">>, <<"y", "e", "s">> }

AnsweredYes(question) ==
    \E i \in Ops(question) : ReadsYes(trace[i].text)

\* every op1 of the run comes before every op2 of the run
Before(op1, op2) == \A i \in Ops(op1) : \A j \in Ops(op2) : i < j

\* C23: the launcher starts the dashboard only in a run that found both
\* 'Airline Review.csv' and 'advanced_airline_dashboard.py' and in which
\* the launch question was answered y or yes; the file tests come before
\* the install step, the install step before the launch question, and
\* after a file test that failed neither pip nor the dashboard is started.
C23_LaunchOnlyAfterChecksAndYes ==
    script = "launcher" =>
       /\ Ops("streamlit run") /= {} =>
             /\ Found("Airline Review.csv")
             /\ Found("advanced_airline_dashboard.py")
             /\ AnsweredYes("Launch dashboard?")
       /\ Before("exists", "Install/update required packages?")
       /\ Before("exists", "pip install")
       /\ Before("Install/update required packages?", "pip install")
       /\ Before("pip install", "Launch dashboard?")
       /\ Before("Install/update required packages?", "Launch dashboard?")
       /\ Before("Launch dashboard?", "streamlit run")
       /\ (NotFound("Airline Review.csv")
             \/ NotFound("advanced_airline_dashboard.py")) =>
             /\ Ops("pip install") = {}
             /\ Ops("streamlit run") = {}

\* a run that installed the packages and then started the dashboard
C23_Witness ==
    /\ script = "launcher"
    /\ spc = "done"
    /\ Ops("pip install") /= {}
    /\ Ops("streamlit run") /= {}

\* the helper got as far as its instructions
Instructed == Ops("print") /= {}

\* a repository is there when the helper goes on: it found one, or it
\* initialized one after a yes
InitCommands == {"git init", "git branch -M main"}

RepositoryThere ==
    \/ Found(".git")
    \/ /\ AnsweredYes("Initialize Git repository?")
       /\ \A c \in InitCommands : \E i \in Ops(c) : trace[i].result = "ok"

\* the run is over before the helper did anything about the repository's
\* content
EndedEmptyHanded ==
    /\ spc = "done"
    /\ Ops("write") = {}
    /\ Ops("git add") = {}
    /\ Ops("git commit") = {}
    /\ ~Instructed

\* C24: the deployment helper prints the hosting instructions only in a
\* run that found the three required files, found git installed and has a
\* repository at that point; when a file is missing, git is not installed,
\* the initialization is declined or it fails, the run ends without
\* writing .gitignore, without committing and without the instructions.
C24_InstructionsOnlyWhenReady ==
    script = "deploy" =>
       /\ Instructed =>
             /\ \A f \in 1..Len(RequiredFiles) : Found(RequiredFiles[f])
             /\ \E i \in Ops("git --version") : trace[i].result = "ok"
             /\ RepositoryThere
       /\ (\E f \in 1..Len(RequiredFiles) : NotFound(RequiredFiles[f])) =>
             EndedEmptyHanded
       /\ (\E i \in Ops("git --version") : trace[i].result /= "ok") =>
             EndedEmptyHanded
       /\ (Ops("Initialize Git repository?") /= {}
             /\ ~AnsweredYes("Initialize Git repository?")) =>
             EndedEmptyHanded
       /\ (\E c \in InitCommands : \E i \in Ops(c) : trace[i].result /= "ok") =>
             EndedEmptyHanded

\* the instructions were printed after the helper initialized a repository
C24_Witness ==
    /\ script = "deploy"
    /\ Instructed
    /\ ~Found(".git")
    /\ Ops("git branch -M main") /= {}

\* how often the run attempted the operation
Attempts(op) == Cardinality(Ops(op))

\* C25 as stated: package installation, git init, git commit and the start
\* of the dashboard are each attempted at most once in a run.
C25_EveryOperationOnce ==
    /\ Attempts("pip install") <= 1
    /\ Attempts("git init") <= 1
    /\ Attempts("git commit") <= 1
    /\ Attempts("streamlit run") <= 1

\* C25: git init, git commit and the start of the dashboard are each
\* attempted at most once in a run, and package installation at most
\* twice: pip is called a second time, for the core package list, only
\* when the first call could not be started (FileNotFoundError); a call
\* that failed with a non-zero exit status is never followed by another
\* attempt.
C25_OnceButInstallFallback ==
    /\ Attempts("git init") <= 1
    /\ Attempts("git add") <= 1
    /\ Attempts("git commit") <= 1
    /\ Attempts("streamlit run") <= 1
    /\ Attempts("pip install") <= 2
    /\ \A i, j \in Ops("pip install") :
          i < j =>
             /\ trace[i].result = "FileNotFoundError"
             /\ trace[i].text = <<"-r requirements_advanced.txt">>
             /\ trace[j].text = <<"core packages">>
    /\ \A i \in 1..Len(trace) :
          trace[i].result = "CalledProcessError" =>
             \A j \in 1..Len(trace) : j > i => trace[j].op /= trace[i].op

\* the launcher called pip twice
C25_Witness ==
    /\ script = "launcher"
    /\ Attempts("pip install") = 2
    /\ spc = "ask_launch"

\* the last pip call of the run did not succeed, the commit was declined,
\* a command of commit_files did not succeed
InstallFailed ==
    /\ Ops("pip install") /= {}
    /\ \E i \in Ops("pip install") :
          /\ trace[i].result /= "ok"
          /\ \A j \in Ops("pip install") : j <= i

CommitDeclined ==
    /\ Ops("Commit current files to Git?") /= {}
    /\ ~AnsweredYes("Commit current files to Git?")

CommitFailed ==
    \E c \in {"git add", "git commit"} :
       \E i \in Ops(c) : trace[i].result /= "ok"

\* C26 as stated: a failed installation is reported with a False result and
\* the launcher goes on to the launch question; after a commit that failed
\* or was declined the deployment helper goes on to print the hosting
\* instructions.
C26_AuxiliaryFailureDoesNotAbort ==
    /\ (script = "launcher" /\ InstallFailed) =>
          /\ spc \in {"ask_launch", "launch", "done"}
          /\ \E i \in Ops("install_requirements") : trace[i].result = "False"
          /\ spc /= "ask_launch" => Ops("Launch dashboard?") /= {}
    /\ (script = "deploy" /\ (CommitDeclined \/ CommitFailed)) =>
          /\ spc \in {"instructions", "done"}
          /\ spc = "done" => Instructed

(***************************************************************************)
(* Claims about a failed load, checked under SpecReload.                   *)
(***************************************************************************)
\* the cache holds the result of a load that failed
FailureCached == cache.set /\ cache.value.none

\* C27: a failed load is cached like a successful one.  Once the cache
\* holds the failure, no step of the process reads the file again or
\* changes the cache entry, and every cycle ends at the check of the
\* loaded table, without filters and without views, also when the file
\* has been put in place in the meantime.
C27_FailedLoadIsMemoized ==
    [][FailureCached =>
          /\ cache' = cache
          /\ parses' = parses
          /\ pc' \in {"start", "halted"}
          /\ df'.none
          /\ filtered_df' = NoTable
          /\ shown' = NoViews]_vars

\* a later cycle halted on the cached failure although the file is there
\* by now and could be loaded
C27_Witness ==
    /\ FailureCached
    /\ cycle >= 2
    /\ pc = "halted"
    /\ csv.exists
    /\ ~LoadAndProcessData(variant, csv).none

(***************************************************************************)
(* Further claims about the rates, checked under SpecOverview.             *)
(***************************************************************************)
\* the rate m is hits out of all, in percent
IsShare(m, hits, all) ==
    IF all = 0 THEN m.nan
    ELSE ~m.nan /\ m.num * all = 100 * hits * m.den

\* the records of the working subset that count as happy, as recommending
HappyRecords(rows) ==
    { i \in 1..Len(rows) : rows[i].rating /= NaN /\ rows[i].rating.v >= 2 * 8 }

Recommending(rows) ==
    { i \in 1..Len(rows) : rows[i].recommended = <<"yes">> }

\* C28: the denominator of a rate is the number of all records of the
\* subset or group: a record without a rating counts as not happy, a
\* record whose Recommended is missing or is not "yes" counts as not
\* recommended, and both stay in the denominator.
C28_RatesOverAllRecords ==
    LET rows == filtered_df.rows
    IN  /\ IsShown("happy_rate") =>
              /\ IsShare(shown.tables["happy_rate"],
                         Cardinality(HappyRecords(rows)), Len(rows))
              /\ IsShare(shown.tables["recommendation_rate"],
                         Cardinality(Recommending(rows)), Len(rows))
        /\ IsShown("traveler_happiness") =>
              \A g \in 1..Len(shown.tables["traveler_happiness"]) :
                 LET group == SelectSeq(rows, LAMBDA r :
                        r.traveller = shown.tables["traveler_happiness"][g].key)
                 IN  IsShare(shown.tables["traveler_happiness"][g].Happy_Rate,
                             Cardinality(HappyRecords(group)), Len(group))

\* a subset with a record without rating and a record without Recommended
\* value next to a happy, recommending one: both rates are 2 of 3
C28_Witness ==
    /\ IsShown("traveler_happiness")
    /\ Len(filtered_df.rows) = 3
    /\ \E i \in 1..3 : filtered_df.rows[i].rating = NaN
    /\ \E i \in 1..3 : filtered_df.rows[i].recommended = None
    /\ Cardinality(HappyRecords(filtered_df.rows)) = 2
    /\ shown.tables["happy_metric"] = [nan |-> FALSE, whole |-> 66, tenth |-> 7]
    /\ shown.tables["recommendation_metric"]
          = [nan |-> FALSE, whole |-> 66, tenth |-> 7]

(***************************************************************************)
(* Further claims about the minimum samples, checked under SpecViews.      *)
(***************************************************************************)
\* the records of the subset whose column col holds key and that have a
\* rating
RatedOf(col, key) ==
    Cardinality({ i \in 1..Len(filtered_df.rows) :
                    /\ filtered_df.rows[i][col] = key
                    /\ filtered_df.rows[i].rating /= NaN })

KeysOf(col) ==
    { filtered_df.rows[i][col] : i \in 1..Len(filtered_df.rows) }

ShownKeys(name) ==
    { shown.tables[name][j].key : j \in 1..Len(shown.tables[name]) }

\* C29: the minimum-sample test counts the ratings of a group, not its
\* records: a group is displayed exactly when its key is not missing and
\* the number of its records that have a rating reaches the minimum, and
\* the count displayed is that number.  So a group with enough records but
\* too few ratings is dropped, and records without a key form no group.
C29_MinimumCountsRatings ==
    \A t \in ThresholdedTables(variant) :
        IsShown(t.name) =>
            /\ ShownKeys(t.name)
                  = { k \in KeysOf(t.col) :
                        /\ k /= None
                        /\ RatedOf(t.col, k) >= StatedMinimum(variant, t.view) }
            /\ \A j \in 1..Len(shown.tables[t.name]) :
                  shown.tables[t.name][j].Review_Count
                     = RatedOf(t.col, shown.tables[t.name][j].key)

\* basic dashboard: the route table was displayed for a subset with a
\* route that has enough records but too few ratings, and with records
\* that have no route
C29_Witness ==
    /\ variant = "basic"
    /\ IsShown("top_routes")
    /\ None \in KeysOf("route")
    /\ \E k \in KeysOf("route") :
          /\ k /= None
          /\ RowsOf("route", k) >= StatedMinimum("basic", "route")
          /\ RatedOf("route", k) < StatedMinimum("basic", "route")
          /\ k \notin ShownKeys("top_routes")

(***************************************************************************)
(* Further claims about extract_review_themes, checked under SpecThemes.   *)
(***************************************************************************)
\* the count of the theme's phrases in the reviews of the selected records,
\* each review taken by itself
RECURSIVE PerReviewSum(_, _)
PerReviewSum(keywords, n) ==
    IF n = 0 THEN 0
    ELSE PerReviewSum(keywords, n - 1)
         + (IF InSentiment(theme_df[n]) /\ theme_df[n].review /= None
            THEN PhraseSum(Lower(theme_df[n].review), keywords, Len(keywords))
            ELSE 0)

KeywordsOf(name) == SelectedThemes[Declared(name)].keywords

\* no phrase of the theme holds a blank
SingleWords(keywords) ==
    \A k \in 1..Len(keywords) :
       \A c \in 1..Len(keywords[k]) : keywords[k][c] /= " "

\* the records in the opposite order
Reversed(rows) == [i \in 1..Len(rows) |-> rows[Len(rows) + 1 - i]]

\* C30: the reviews are joined by a blank before the phrases are counted,
\* so the count of a theme is at least the sum of its counts in the single
\* reviews; it equals that sum for a theme of single words, which cannot
\* reach across the blank, and a phrase of several words can add matches
\* that lie across two consecutive reviews.
C30_CountAtLeastPerReviewSum ==
    theme_out /= <<>> =>
       \A i \in 1..Len(theme_out) :
          LET keywords == KeywordsOf(theme_out[i].theme)
              apart == PerReviewSum(keywords, Len(theme_df))
          IN  /\ theme_out[i].count >= apart
              /\ SingleWords(keywords) => theme_out[i].count = apart

\* "late on" followed by "time lost": Efficiency is counted once, for the
\* "on time" across the two reviews, which holds no phrase of the theme by
\* itself; with the records in the opposite order the count is 0
C30_Witness ==
    /\ theme_out /= <<>>
    /\ sentiment_in = "positive"
    /\ Len(theme_df) = 2
    /\ PerReviewSum(KeywordsOf("Efficiency"), 2) = 0
    /\ theme_out[1] = [theme |-> "Efficiency", count |-> 1]
    /\ ExtractReviewThemes(Reversed(theme_df), sentiment_in)[1].count = 0

====
